---- MODULE Spec2Model ----
(***************************************************************************)
(* Model of the real-time ingestion pipeline of python-sleep-tracker:      *)
(* helpers.stream_data (the orchestrating context and its shutdown),       *)
(* helpers.consume_data_queue (one consumer worker per channel),           *)
(* DataStreamer._data_handler (the transport's callback context),          *)
(* multiprocessing.Queue as the code uses it (bounded semaphore, feeder    *)
(* thread, pipe) and DataWriter (line-buffered csv sink); of the session   *)
(* object MetaWearDevice / DataStreamer with the filter-chain builder      *)
(* (_create_standard_preprocessor, _register_data_processor); and of the   *)
(* configuration flows of cli.py (_input_device_config, _configure_device) *)
(* with the option catalogue of MetaWearDevice and the cache of the        *)
(* variant identifiers (device_info); of the offline aggregation           *)
(* scripts/process_session.py; and of the paths of a session's files.      *)
(*                                                                         *)
(* The worker processes are forked (the DataWriter they receive holds an   *)
(* open file), so each worker owns a copy of the queue object and of the   *)
(* writer, while the semaphore, the pipe, the Event and the open file are  *)
(* shared with the orchestrating process.                                  *)
(***************************************************************************)
EXTENDS Integers, Sequences, FiniteSets, TLC

\* Bounds of the model.
MaxSamples == 2
MaxQueueSize == 1
MaxOptionValue == 2
MaxRows == 4
MaxBins == 3

Channels == {"acc", "gyro"}

VARIABLES
    raw,         \* stream_data's raw flag
    connected,   \* MetaWearDevice.connected
    sampling,    \* on-device sampling enabled and started
    produced,    \* per channel: callback invocations delivered so far
    cb,          \* the callback-delivering context: [pc, chan, data]
    samples,     \* DataStreamer.samples
    enqueued,    \* per channel: appends to the queue's buffer so far
    pushed,      \* per channel: the samples appended to the queue, in order
    buf,         \* per channel: mp.Queue._buffer of the orchestrating process
    pipe,        \* per channel: items in the queue's pipe
    feeder,      \* per channel: mp.Queue feeder thread: none, running, exited
    closed,      \* per channel: mp.Queue._closed in the orchestrating process
    event,       \* per channel: the mp.Event idle signal
    wPc,         \* per channel: position of the consumer worker
    held,        \* per channel: sample popped by the worker, 0 when none
    pending,     \* per channel: unflushed text of the worker's file object
    file,        \* per channel: content of the csv file
    fileOpen,    \* per channel: the orchestrator's file handle is open
    streamProc,  \* stream_process: unstarted, alive, exited
    mainPc,      \* position of stream_data
    interrupted, \* KeyboardInterrupt caught by stream_data's except clause
    stopDone,    \* streamer.stop_streaming() has returned
    waitRes,     \* per channel: how Event.wait(5) returned: none, set, timeout
    killIssued,  \* per channel: Process.kill() has been called
    acc_model,   \* MetaWearDevice.acc_model: the accelerometer variant
    gyro_model,  \* MetaWearDevice.gyro_model: the gyroscope variant
    configured,  \* per channel: acc_configured / gyro_configured
    enabled,     \* per channel: on-device sampling enabled and started
    subscription, \* per channel: signal handle subscribed on the device, 0 if none
    issued,      \* commands sent to the device by the current or last operation
    sPc,         \* position of the session's caller: [pc, chan, k, signal_id]
    stage_requests, \* stage-creation requests of the current subscribe_to_sensors
    fetched,     \* channels whose raw signal the current subscribe_to_sensors got
    lastOp,      \* the operation that ran last
    error,       \* how the last operation ended
    cfgPc,       \* position of the configuration flow of cli.py
    cbindingValues, \* values the vendor's enumeration gives to its options
    device_options, \* result of _get_device_options: kind -> option values
    resolved,    \* the last option lookup: [values, index, ok, value]
    device_info, \* MetaWearDevice.device_info: the cached variant identifiers
    lookups,     \* per identifier: the lookups sent to the board, each with
                 \* the value of connected when it was sent
    acc_data,    \* process_session: rows of the accelerometer csv file
    gyro_data,   \* process_session: rows of the gyroscope csv file
    bins,        \* process_session: args.bins
    batchPc,     \* position of process_session.main
    acc_data_cumulative,  \* events of the accelerometer channel
    gyro_data_cumulative, \* events of the gyroscope channel
    acc_sorted_insert,    \* cumulative event count at every probe
    gyro_sorted_insert,
    acc_aggregate,        \* bin counts of the accelerometer channel
    gyro_aggregate,       \* bin counts of the gyroscope channel
    stages,      \* the stage of every bin
    batchError,  \* the exception that ended main, "none" if none
    fs           \* the files of a session: the directories and files that
                 \* exist, and the paths the two stages have opened

\* The state of the session object and of the configuration flows.
setupVars == <<acc_model, gyro_model, configured, enabled, subscription, issued,
               sPc, stage_requests, fetched, lastOp, error, cfgPc,
               cbindingValues, device_options, resolved, device_info,
               lookups>>

cacheVars == <<device_info, lookups>>

\* The state of the offline aggregation, scripts/process_session.py.
batchVars == <<acc_data, gyro_data, bins, batchPc, acc_data_cumulative,
               gyro_data_cumulative, acc_sorted_insert, gyro_sorted_insert,
               acc_aggregate, gyro_aggregate, stages, batchError>>

\* The files of a session on disk.
storageVars == <<fs>>

vars == <<raw, connected, sampling, produced, cb, samples, enqueued, pushed,
          buf, pipe, feeder, closed, event, wPc, held, pending, file,
          fileOpen, streamProc, mainPc, interrupted, stopDone, waitRes,
          killIssued, setupVars, batchVars, storageVars>>

----------------------------------------------------------------------------
\* Text of the csv files, as sequences of tokens.

Tok(k, v) == [k |-> k, v |-> v]
NL == Tok("nl", 0)
Sentinel == 0
Range(s) == {s[i] : i \in 1..Len(s)}

\* A header with the shapes of the two modes exchanged.
write_header_swapped(r) ==
    IF r THEN <<Tok("hdr", 1), Tok("hdr", 2), NL>>
    ELSE <<Tok("hdr", 1), Tok("hdr", 2), Tok("hdr", 3), Tok("hdr", 4), NL>>

\* DataWriter._write_header: four columns in raw mode, two otherwise.
write_header(r) ==
    IF r THEN <<Tok("hdr", 1), Tok("hdr", 2), Tok("hdr", 3), Tok("hdr", 4), NL>>
    ELSE <<Tok("hdr", 1), Tok("hdr", 2), NL>>

\* _format_line: the write time, the payload floats, the line terminator.
format_line(data) ==
    <<Tok("ts", 0)>> \o [i \in 1..Len(data) |-> Tok("val", data[i])] \o <<NL>>

\* A buffer that is flushed in blocks of two tokens, whatever they are.
BlockFlushCount(pend, chunk) == (Len(pend \o chunk) \div 2) * 2

\* open(..., buffering=1): a write that holds a line terminator flushes
\* everything written so far; nothing reaches the file before that.
FlushCount(pend, chunk) ==
    IF NL \in Range(chunk) THEN Len(pend \o chunk) ELSE 0

\* file.write(text) on a file object whose unflushed text is pend.
FileWrite(pend, text) ==
    LET all == pend \o text
        n == FlushCount(pend, text)
    IN [flushed |-> SubSeq(all, 1, n), pending |-> SubSeq(all, n + 1, Len(all))]

\* _data_handler's payload: [x, y, z] in raw mode, [data] otherwise.
Payload(r, v) == IF r THEN <<v, v, v>> ELSE <<v>>

----------------------------------------------------------------------------
\* multiprocessing.Queue

Items(c) == SelectSeq(buf[c], LAMBDA x : x # Sentinel)
QueueLen(c) == Len(Items(c)) + Len(pipe[c])

\* A put that never waits for the semaphore.
SemAlwaysFree(c) == TRUE

\* Queue.put: self._sem.acquire(); the semaphore counts the items put and
\* not yet received, and get releases it.
SemAvailable(c) == QueueLen(c) < MaxQueueSize

----------------------------------------------------------------------------
\* stream_data: the order of its statements.

StartOrder == <<"start_streaming", "start_stream_process", "start_acc",
                "start_gyro", "wait">>

\* The except clause with the queues closed before the device is stopped.
ShutdownOrderCloseFirst ==
    <<"check_alive", "close_acc", "close_gyro", "stop", "wait_acc",
      "wait_gyro", "kill_acc", "kill_gyro", "fclose_acc", "fclose_gyro",
      "set_main", "done">>

ShutdownOrder ==
    <<"check_alive", "stop", "close_acc", "close_gyro", "wait_acc",
      "wait_gyro", "kill_acc", "kill_gyro", "fclose_acc", "fclose_gyro",
      "set_main", "done">>

InStart(pc) == \E i \in 1..(Len(StartOrder) - 1) : StartOrder[i] = pc
InShutdown(pc) == \E i \in 1..(Len(ShutdownOrder) - 1) : ShutdownOrder[i] = pc

After(pc) ==
    IF InStart(pc)
    THEN StartOrder[(CHOOSE i \in 1..Len(StartOrder) : StartOrder[i] = pc) + 1]
    ELSE ShutdownOrder[(CHOOSE i \in 1..Len(ShutdownOrder) :
                            ShutdownOrder[i] = pc) + 1]

CloseLabel(c) == IF c = "acc" THEN "close_acc" ELSE "close_gyro"
WaitLabel(c) == IF c = "acc" THEN "wait_acc" ELSE "wait_gyro"
KillLabel(c) == IF c = "acc" THEN "kill_acc" ELSE "kill_gyro"
FcloseLabel(c) == IF c = "acc" THEN "fclose_acc" ELSE "fclose_gyro"
StartLabel(c) == IF c = "acc" THEN "start_acc" ELSE "start_gyro"

WorkerAlive(c) == wPc[c] \in {"boot", "get", "clear", "write", "set", "sleep"}

----------------------------------------------------------------------------
\* The session object and the configuration flows: values shared by the
\* specifications below.

AccModels == {"BMI160", "BMI270", "BMA255", "MMA8452Q", "unknown"}
GyroModels == {"BMI160", "BMI270", "unknown"}
OptionKinds == <<"acc_freq", "acc_range", "gyro_freq", "gyro_range">>

\* Handles of the device's signals: the raw signal of a channel, and the
\* pointer the device delivers for stage k of a channel's chain.
RawSignal(c) == IF c = "acc" THEN 1 ELSE 2
Pointer(c, k) == (IF c = "acc" THEN 10 ELSE 20) + k

\* The caller of the session is not inside subscribe_to_sensors.
Idle == [pc |-> "idle", chan |-> "acc", k |-> 0, signal_id |-> 0]

\* No configuration flow of cli.py is running.
CfgIdle == [flow |-> "none", step |-> "idle", n |-> 0]

\* An empty dict, None, and the lookup record before any lookup.
EmptyDict == [k \in {} |-> {}]
None == {}
NoLookup == [kind |-> "none", values |-> {}, index |-> 0, ok |-> FALSE,
             option |-> {}]

\* The keys of device_info, and the module each is looked up with.
ModelKeys == {"acc_model", "gyro_model"}

\* libmetawear.mbl_mw_metawearboard_lookup_module(board, module): the
\* variant of the board's accelerometer or gyroscope.
lookup_module(key) == IF key = "acc_model" THEN acc_model ELSE gyro_model

\* The properties acc_model and gyro_model, read for every key of keys: a
\* key that is not in device_info is looked up on the board and saved, a key
\* that is in it is returned from device_info.
read_model(keys) ==
    /\ device_info' = [key \in DOMAIN device_info \cup keys |->
                         IF key \in DOMAIN device_info THEN device_info[key]
                         ELSE lookup_module(key)]
    /\ lookups' = [key \in ModelKeys |->
                     IF key \in keys \ DOMAIN device_info
                     THEN Append(lookups[key], connected)
                     ELSE lookups[key]]

\* The two identifiers as _get_device_options saved them, before connect.
SavedModels ==
    /\ device_info = [key \in ModelKeys |-> lookup_module(key)]
    /\ lookups = [key \in ModelKeys |-> <<FALSE>>]

\* device_info = {} of a new MetaWearDevice.
NoModels ==
    /\ device_info = EmptyDict
    /\ lookups = [key \in ModelKeys |-> <<>>]

\* No stage has named a file of the session, and no directory exists.
NoPath == <<>>
NoFiles == [dirs |-> {}, files |-> {}, session_id |-> 1, pc |-> "unstarted",
            filename |-> [c \in Channels |-> NoPath],
            read_csv |-> [c \in Channels |-> NoPath],
            created |-> {}, error |-> "none"]
NoStorage == fs = NoFiles

\* process_session.main has not been started.
BatchUnstarted ==
    /\ acc_data = <<>>
    /\ gyro_data = <<>>
    /\ bins = 1
    /\ batchPc = "unstarted"
    /\ acc_data_cumulative = <<>>
    /\ gyro_data_cumulative = <<>>
    /\ acc_sorted_insert = <<>>
    /\ gyro_sorted_insert = <<>>
    /\ acc_aggregate = <<>>
    /\ gyro_aggregate = <<>>
    /\ stages = <<>>
    /\ batchError = "none"

\* The state in which helpers.stream_data starts the processes: device
\* configured, both channels subscribed, nothing enabled yet.
SetupDone ==
    /\ acc_model = "BMI160"
    /\ gyro_model = "BMI160"
    /\ configured = [c \in Channels |-> TRUE]
    /\ enabled = [c \in Channels |-> FALSE]
    /\ subscription = [c \in Channels |-> Pointer(c, 3)]
    /\ issued = {}
    /\ sPc = Idle
    /\ stage_requests = <<>>
    /\ fetched = {}
    /\ lastOp = "subscribe_to_sensors"
    /\ error = "none"
    /\ cfgPc = CfgIdle
    /\ cbindingValues = {0}
    /\ device_options = EmptyDict
    /\ resolved = NoLookup
    /\ SavedModels

----------------------------------------------------------------------------
Init ==
    /\ SetupDone
    /\ BatchUnstarted
    /\ NoStorage
    /\ raw \in BOOLEAN
    /\ connected = TRUE
    /\ sampling = FALSE
    /\ produced = [c \in Channels |-> 0]
    /\ cb = [pc |-> "idle", chan |-> "acc", data |-> 0]
    /\ samples = 0
    /\ enqueued = [c \in Channels |-> 0]
    /\ pushed = [c \in Channels |-> <<>>]
    /\ buf = [c \in Channels |-> <<>>]
    /\ pipe = [c \in Channels |-> <<>>]
    /\ feeder = [c \in Channels |-> "none"]
    /\ closed = [c \in Channels |-> FALSE]
    /\ event = [c \in Channels |-> FALSE]
    /\ wPc = [c \in Channels |-> "unstarted"]
    /\ held = [c \in Channels |-> 0]
    /\ pending = [c \in Channels |-> FileWrite(<<>>, write_header(raw)).pending]
    /\ file = [c \in Channels |-> FileWrite(<<>>, write_header(raw)).flushed]
    /\ fileOpen = [c \in Channels |-> TRUE]
    /\ streamProc = "unstarted"
    /\ mainPc = "start_streaming"
    /\ interrupted = FALSE
    /\ stopDone = FALSE
    /\ waitRes = [c \in Channels |-> "none"]
    /\ killIssued = [c \in Channels |-> FALSE]

----------------------------------------------------------------------------
\* The orchestrating context: stream_data, from the start of streaming on.

mainVars == <<mainPc, interrupted, stopDone, waitRes, killIssued>>
cbVars == <<produced, cb, samples, enqueued, pushed>>
queueVars == <<buf, pipe, feeder, closed>>
workerVars == <<wPc, held, pending, file>>

\* mp.Process(target=streamer.start_streaming()): the call is made here, in
\* the orchestrating process, and enables sampling on the device.
start_streaming ==
    /\ mainPc = "start_streaming"
    /\ sampling' = TRUE
    /\ mainPc' = After(mainPc)
    /\ UNCHANGED setupVars
    /\ UNCHANGED batchVars
    /\ UNCHANGED storageVars
    /\ UNCHANGED <<raw, connected, cbVars, queueVars, event, workerVars,
                   fileOpen, streamProc, interrupted, stopDone, waitRes,
                   killIssued>>

\* stream_process.start(): a child whose target is None.
start_stream_process ==
    /\ mainPc = "start_stream_process"
    /\ streamProc' = "alive"
    /\ mainPc' = After(mainPc)
    /\ UNCHANGED setupVars
    /\ UNCHANGED batchVars
    /\ UNCHANGED storageVars
    /\ UNCHANGED <<raw, connected, sampling, cbVars, queueVars, event,
                   workerVars, fileOpen, interrupted, stopDone, waitRes,
                   killIssued>>

\* The child with no target returns from run() and exits.
stream_process_exit ==
    /\ streamProc = "alive"
    /\ streamProc' = "exited"
    /\ UNCHANGED setupVars
    /\ UNCHANGED batchVars
    /\ UNCHANGED storageVars
    /\ UNCHANGED <<raw, connected, sampling, cbVars, queueVars, event,
                   workerVars, fileOpen, mainVars>>

\* acc_write_process.start() / gyro_write_process.start(): fork.
start_write_process(c) ==
    /\ mainPc = StartLabel(c)
    /\ wPc' = [wPc EXCEPT ![c] = "boot"]
    /\ mainPc' = After(mainPc)
    /\ UNCHANGED setupVars
    /\ UNCHANGED batchVars
    /\ UNCHANGED storageVars
    /\ UNCHANGED <<raw, connected, sampling, cbVars, queueVars, event, held,
                   pending, file, fileOpen, streamProc, interrupted, stopDone,
                   waitRes, killIssued>>

\* SIGINT delivered to the orchestrating process. It is caught only while
\* stream_data is inside the try block (main_event.wait()); anywhere else the
\* KeyboardInterrupt leaves stream_data.
KeyboardInterrupt ==
    /\ mainPc \notin {"done", "aborted"}
    /\ IF mainPc = "wait"
       THEN mainPc' = "check_alive" /\ interrupted' = TRUE
       ELSE mainPc' = "aborted" /\ UNCHANGED interrupted
    /\ UNCHANGED setupVars
    /\ UNCHANGED batchVars
    /\ UNCHANGED storageVars
    /\ UNCHANGED <<raw, connected, sampling, cbVars, queueVars, event,
                   workerVars, fileOpen, streamProc, stopDone, waitRes,
                   killIssued>>

\* if stream_process.is_alive(): stream_process.close()
\* Process.close() raises ValueError when the process is still running.
check_alive ==
    /\ mainPc = "check_alive"
    /\ mainPc' = IF streamProc = "alive" THEN "aborted" ELSE After(mainPc)
    /\ UNCHANGED setupVars
    /\ UNCHANGED batchVars
    /\ UNCHANGED storageVars
    /\ UNCHANGED <<raw, connected, sampling, cbVars, queueVars, event,
                   workerVars, fileOpen, streamProc, interrupted, stopDone,
                   waitRes, killIssued>>

\* streamer.stop_streaming(): the device stops and disables sampling on both
\* channels; DataStreamer resets its sample counter.
stop_streaming ==
    /\ mainPc = "stop"
    /\ sampling' = FALSE
    /\ samples' = 0
    /\ stopDone' = TRUE
    /\ mainPc' = After(mainPc)
    /\ UNCHANGED setupVars
    /\ UNCHANGED batchVars
    /\ UNCHANGED storageVars
    /\ UNCHANGED <<raw, connected, produced, cb, enqueued, pushed, queueVars,
                   event, workerVars, fileOpen, streamProc, interrupted,
                   waitRes, killIssued>>

\* Queue.close() in the orchestrating process: _closed is set and, when the
\* feeder thread was started, the sentinel is appended to the buffer.
queue_close(c) ==
    /\ mainPc = CloseLabel(c)
    /\ closed' = [closed EXCEPT ![c] = TRUE]
    /\ buf' = [buf EXCEPT ![c] =
                 IF feeder[c] = "running" THEN Append(@, Sentinel) ELSE @]
    /\ mainPc' = After(mainPc)
    /\ UNCHANGED setupVars
    /\ UNCHANGED batchVars
    /\ UNCHANGED storageVars
    /\ UNCHANGED <<raw, connected, sampling, cbVars, pipe, feeder, event,
                   workerVars, fileOpen, streamProc, interrupted, stopDone,
                   waitRes, killIssued>>

\* acc_queue_event.wait(5) / gyro_queue_event.wait(5): returns at once when
\* the event is set, and otherwise when the budget has run out.
event_wait(c) ==
    /\ mainPc = WaitLabel(c)
    /\ waitRes' = [waitRes EXCEPT ![c] = IF event[c] THEN "set" ELSE "timeout"]
    /\ mainPc' = After(mainPc)
    /\ UNCHANGED setupVars
    /\ UNCHANGED batchVars
    /\ UNCHANGED storageVars
    /\ UNCHANGED <<raw, connected, sampling, cbVars, queueVars, event,
                   workerVars, fileOpen, streamProc, interrupted, stopDone,
                   killIssued>>

\* acc_write_process.kill() / gyro_write_process.kill(): SIGKILL.
process_kill(c) ==
    /\ mainPc = KillLabel(c)
    /\ wPc' = [wPc EXCEPT ![c] = IF WorkerAlive(c) THEN "killed" ELSE @]
    /\ killIssued' = [killIssued EXCEPT ![c] = TRUE]
    /\ mainPc' = After(mainPc)
    /\ UNCHANGED setupVars
    /\ UNCHANGED batchVars
    /\ UNCHANGED storageVars
    /\ UNCHANGED <<raw, connected, sampling, cbVars, queueVars, event, held,
                   pending, file, fileOpen, streamProc, interrupted, stopDone,
                   waitRes>>

\* acc_writer.close() / gyro_writer.close(): the orchestrator's file object
\* flushes what it still holds (the part of the header not yet flushed).
writer_close(c) ==
    /\ mainPc = FcloseLabel(c)
    /\ fileOpen' = [fileOpen EXCEPT ![c] = FALSE]
    /\ file' = [file EXCEPT ![c] = @ \o FileWrite(<<>>, write_header(raw)).pending]
    /\ mainPc' = After(mainPc)
    /\ UNCHANGED setupVars
    /\ UNCHANGED batchVars
    /\ UNCHANGED storageVars
    /\ UNCHANGED <<raw, connected, sampling, cbVars, queueVars, event, wPc,
                   held, pending, streamProc, interrupted, stopDone, waitRes,
                   killIssued>>

\* main_event.set()
set_main_event ==
    /\ mainPc = "set_main"
    /\ mainPc' = After(mainPc)
    /\ UNCHANGED setupVars
    /\ UNCHANGED batchVars
    /\ UNCHANGED storageVars
    /\ UNCHANGED <<raw, connected, sampling, cbVars, queueVars, event,
                   workerVars, fileOpen, streamProc, interrupted, stopDone,
                   waitRes, killIssued>>

----------------------------------------------------------------------------
\* The callback-delivering context of the transport: one thread, which runs
\* DataStreamer._data_handler for both channels.

\* Queue.put past its closed check and its semaphore: start the feeder thread
\* if there is none and append to the buffer; then self.samples += 1.
Enqueue(c, v) ==
    /\ buf' = [buf EXCEPT ![c] = Append(@, v)]
    /\ feeder' = [feeder EXCEPT ![c] = IF @ = "none" THEN "running" ELSE @]
    /\ enqueued' = [enqueued EXCEPT ![c] = @ + 1]
    /\ pushed' = [pushed EXCEPT ![c] = Append(@, v)]
    /\ samples' = samples + 1

\* The device delivers a sample on channel c and _data_handler runs. In raw
\* mode parse_value returns a CartesianFloat structure, and formatting it
\* with {data:.4f} for LOG.debug raises TypeError before the payload is built:
\* the invocation ends with nothing pushed. Queue.put raises ValueError when
\* the queue is already closed. Otherwise put acquires the semaphore: a free
\* semaphore lets the invocation run to its end at once, a full queue parks
\* the callback context inside put.
data_handler(c) ==
    /\ connected /\ sampling
    /\ cb.pc = "idle"
    /\ produced["acc"] + produced["gyro"] < MaxSamples
    /\ produced' = [produced EXCEPT ![c] = @ + 1]
    /\ IF raw \/ closed[c]
       THEN UNCHANGED <<cb, buf, feeder, enqueued, pushed, samples>>
       ELSE IF SemAvailable(c)
            THEN Enqueue(c, produced[c] + 1) /\ UNCHANGED cb
            ELSE /\ cb' = [pc |-> "put", chan |-> c, data |-> produced[c] + 1]
                 /\ UNCHANGED <<buf, feeder, enqueued, pushed, samples>>
    /\ UNCHANGED setupVars
    /\ UNCHANGED batchVars
    /\ UNCHANGED storageVars
    /\ UNCHANGED <<raw, connected, sampling, pipe, closed, event, workerVars,
                   fileOpen, streamProc, mainVars>>

\* The callback context parked in Queue.put is released by a get of the
\* consumer and finishes its invocation.
queue_put ==
    /\ cb.pc = "put"
    /\ SemAvailable(cb.chan)
    /\ Enqueue(cb.chan, cb.data)
    /\ cb' = [pc |-> "idle", chan |-> "acc", data |-> 0]
    /\ UNCHANGED setupVars
    /\ UNCHANGED batchVars
    /\ UNCHANGED storageVars
    /\ UNCHANGED <<raw, connected, sampling, produced, pipe, closed, event,
                   workerVars, fileOpen, streamProc, mainVars>>

\* Queue._feed: the feeder thread moves the head of the buffer into the pipe
\* and returns when it meets the sentinel.
queue_feed(c) ==
    /\ feeder[c] = "running"
    /\ buf[c] # <<>>
    /\ buf' = [buf EXCEPT ![c] = Tail(@)]
    /\ IF Head(buf[c]) = Sentinel
       THEN feeder' = [feeder EXCEPT ![c] = "exited"] /\ UNCHANGED pipe
       ELSE pipe' = [pipe EXCEPT ![c] = Append(@, Head(buf[c]))]
            /\ UNCHANGED feeder
    /\ UNCHANGED setupVars
    /\ UNCHANGED batchVars
    /\ UNCHANGED storageVars
    /\ UNCHANGED <<raw, connected, sampling, cbVars, closed, event, workerVars,
                   fileOpen, streamProc, mainVars>>

\* A disconnect that makes the orchestrator begin its teardown.
disconnect_starts_shutdown ==
    /\ connected
    /\ connected' = FALSE
    /\ mainPc' = IF mainPc = "wait" THEN "stop" ELSE mainPc
    /\ UNCHANGED setupVars
    /\ UNCHANGED batchVars
    /\ UNCHANGED storageVars
    /\ UNCHANGED <<raw, sampling, cbVars, queueVars, event, workerVars,
                   fileOpen, streamProc, interrupted, stopDone, waitRes,
                   killIssued>>

\* MetaWearDevice._disconnect_callback: logs and clears the connected flag.
disconnect_callback ==
    /\ connected
    /\ connected' = FALSE
    /\ UNCHANGED setupVars
    /\ UNCHANGED batchVars
    /\ UNCHANGED storageVars
    /\ UNCHANGED <<raw, sampling, cbVars, queueVars, event, workerVars,
                   fileOpen, streamProc, mainVars>>

----------------------------------------------------------------------------
\* The consumer workers: disable_control_c(consume_data_queue) in a forked
\* process.

\* wrapper: signal.signal(signal.SIGINT, signal.SIG_IGN), then func(...).
disable_control_c(c) ==
    /\ wPc[c] = "boot"
    /\ wPc' = [wPc EXCEPT ![c] = "get"]
    /\ UNCHANGED setupVars
    /\ UNCHANGED batchVars
    /\ UNCHANGED storageVars
    /\ UNCHANGED <<raw, connected, sampling, cbVars, queueVars, event, held,
                   pending, file, fileOpen, streamProc, mainVars>>

\* SIGINT delivered to the worker process. Until the wrapper has installed
\* SIG_IGN the process has the handler it inherited at the fork, which raises
\* KeyboardInterrupt and ends the process; afterwards the signal is ignored.
worker_sigint(c) ==
    /\ WorkerAlive(c)
    /\ wPc' = [wPc EXCEPT ![c] = IF @ = "boot" THEN "crashed" ELSE @]
    /\ UNCHANGED setupVars
    /\ UNCHANGED batchVars
    /\ UNCHANGED storageVars
    /\ UNCHANGED <<raw, connected, sampling, cbVars, queueVars, event, held,
                   pending, file, fileOpen, streamProc, mainVars>>

\* data = data_queue.get(timeout=1): the head of the pipe, releasing the
\* semaphore, or queue.Empty when nothing arrived within the timeout.
consume_get(c) ==
    /\ wPc[c] = "get"
    /\ IF pipe[c] # <<>>
       THEN /\ held' = [held EXCEPT ![c] = Head(pipe[c])]
            /\ pipe' = [pipe EXCEPT ![c] = Tail(@)]
            /\ wPc' = [wPc EXCEPT ![c] = "clear"]
       ELSE /\ wPc' = [wPc EXCEPT ![c] = "set"]
            /\ UNCHANGED <<held, pipe>>
    /\ UNCHANGED setupVars
    /\ UNCHANGED batchVars
    /\ UNCHANGED storageVars
    /\ UNCHANGED <<raw, connected, sampling, cbVars, buf, feeder, closed,
                   event, pending, file, fileOpen, streamProc, mainVars>>

\* A successful pop that leaves the idle signal as it is.
consume_no_clear(c) ==
    /\ wPc[c] = "clear"
    /\ wPc' = [wPc EXCEPT ![c] = "write"]
    /\ UNCHANGED setupVars
    /\ UNCHANGED batchVars
    /\ UNCHANGED storageVars
    /\ UNCHANGED <<raw, connected, sampling, cbVars, queueVars, event, held,
                   pending, file, fileOpen, streamProc, mainVars>>

\* event.clear()
consume_clear(c) ==
    /\ wPc[c] = "clear"
    /\ event' = [event EXCEPT ![c] = FALSE]
    /\ wPc' = [wPc EXCEPT ![c] = "write"]
    /\ UNCHANGED setupVars
    /\ UNCHANGED batchVars
    /\ UNCHANGED storageVars
    /\ UNCHANGED <<raw, connected, sampling, cbVars, queueVars, held, pending,
                   file, fileOpen, streamProc, mainVars>>

\* A worker that writes its row to the file of the other channel.
write_data_other(c) ==
    /\ wPc[c] = "write"
    /\ LET o == CHOOSE x \in Channels : x # c
           w == FileWrite(pending[o], format_line(Payload(raw, held[c])))
       IN /\ file' = [file EXCEPT ![o] = @ \o w.flushed]
          /\ pending' = [pending EXCEPT ![o] = w.pending]
    /\ held' = [held EXCEPT ![c] = 0]
    /\ wPc' = [wPc EXCEPT ![c] = "get"]
    /\ UNCHANGED setupVars
    /\ UNCHANGED batchVars
    /\ UNCHANGED storageVars
    /\ UNCHANGED <<raw, connected, sampling, cbVars, queueVars, event,
                   fileOpen, streamProc, mainVars>>

\* writer.write_data(data): self.file.write(_format_line(data))
write_data(c) ==
    /\ wPc[c] = "write"
    /\ LET w == FileWrite(pending[c], format_line(Payload(raw, held[c])))
       IN /\ file' = [file EXCEPT ![c] = @ \o w.flushed]
          /\ pending' = [pending EXCEPT ![c] = w.pending]
    /\ held' = [held EXCEPT ![c] = 0]
    /\ wPc' = [wPc EXCEPT ![c] = "get"]
    /\ UNCHANGED setupVars
    /\ UNCHANGED batchVars
    /\ UNCHANGED storageVars
    /\ UNCHANGED <<raw, connected, sampling, cbVars, queueVars, event,
                   fileOpen, streamProc, mainVars>>

\* except queue.Empty: event.set()
consume_set(c) ==
    /\ wPc[c] = "set"
    /\ event' = [event EXCEPT ![c] = TRUE]
    /\ wPc' = [wPc EXCEPT ![c] = "sleep"]
    /\ UNCHANGED setupVars
    /\ UNCHANGED batchVars
    /\ UNCHANGED storageVars
    /\ UNCHANGED <<raw, connected, sampling, cbVars, queueVars, held, pending,
                   file, fileOpen, streamProc, mainVars>>

\* time.sleep(sleep_time), then the next turn of the loop.
consume_sleep(c) ==
    /\ wPc[c] = "sleep"
    /\ wPc' = [wPc EXCEPT ![c] = "get"]
    /\ UNCHANGED setupVars
    /\ UNCHANGED batchVars
    /\ UNCHANGED storageVars
    /\ UNCHANGED <<raw, connected, sampling, cbVars, queueVars, event, held,
                   pending, file, fileOpen, streamProc, mainVars>>

----------------------------------------------------------------------------
Next ==
    \/ start_streaming
    \/ start_stream_process
    \/ stream_process_exit
    \/ \E c \in Channels : start_write_process(c)
    \/ KeyboardInterrupt
    \/ check_alive
    \/ stop_streaming
    \/ \E c \in Channels : queue_close(c)
    \/ \E c \in Channels : event_wait(c)
    \/ \E c \in Channels : process_kill(c)
    \/ \E c \in Channels : writer_close(c)
    \/ set_main_event
    \/ \E c \in Channels : data_handler(c)
    \/ queue_put
    \/ \E c \in Channels : queue_feed(c)
    \/ disconnect_callback
    \/ \E c \in Channels : disable_control_c(c)
    \/ \E c \in Channels : worker_sigint(c)
    \/ \E c \in Channels : consume_get(c)
    \/ \E c \in Channels : consume_clear(c)
    \/ \E c \in Channels : write_data(c)
    \/ \E c \in Channels : consume_set(c)
    \/ \E c \in Channels : consume_sleep(c)

Spec == Init /\ [][Next]_vars

\* The steps the code's own scheduling makes progress on: the statements of
\* stream_data, the child without target, the feeder threads, a put whose
\* semaphore is free, and the loops of the workers. The interrupts, the
\* device's callbacks and the disconnect are the environment's.
Fairness ==
    /\ WF_vars(start_streaming)
    /\ WF_vars(start_stream_process)
    /\ WF_vars(stream_process_exit)
    /\ WF_vars(check_alive)
    /\ WF_vars(stop_streaming)
    /\ WF_vars(set_main_event)
    /\ WF_vars(queue_put)
    /\ \A c \in Channels :
         /\ WF_vars(start_write_process(c))
         /\ WF_vars(queue_close(c))
         /\ WF_vars(event_wait(c))
         /\ WF_vars(process_kill(c))
         /\ WF_vars(writer_close(c))
         /\ WF_vars(queue_feed(c))
         /\ WF_vars(disable_control_c(c))
         /\ WF_vars(consume_get(c))
         /\ WF_vars(consume_clear(c))
         /\ WF_vars(write_data(c))
         /\ WF_vars(consume_set(c))
         /\ WF_vars(consume_sleep(c))

FairSpec == Spec /\ Fairness

----------------------------------------------------------------------------
\* Shape of the csv text.

LineEnds(f) == {i \in 1..Len(f) : f[i].k = "nl"}

LineStart(f, e) ==
    LET before == {j \in LineEnds(f) : j < e}
    IN IF before = {} THEN 1
       ELSE (CHOOSE j \in before : \A k \in before : k <= j) + 1

IsHeaderLine(line, r) ==
    /\ Len(line) = Len(write_header(r)) - 1
    /\ \A i \in 1..Len(line) : line[i].k = "hdr"

IsCompleteRow(line, r) ==
    /\ Len(line) = 1 + Len(Payload(r, 0))
    /\ line[1].k = "ts"
    /\ \A i \in 2..Len(line) : line[i].k = "val"

RowsComplete(f, r) ==
    /\ f # <<>> => f[Len(f)].k = "nl"
    /\ \A e \in LineEnds(f) :
         LET line == SubSeq(f, LineStart(f, e), e - 1)
         IN IF LineStart(f, e) = 1 THEN IsHeaderLine(line, r)
            ELSE IsCompleteRow(line, r)

----------------------------------------------------------------------------
\* C1: the shutdown steps happen in the order device stop, queue closes, idle
\* waits (accelerometer, then gyroscope), worker kills, file closes: no queue
\* is closed before the device stop has returned, no wait begins before both
\* queues are closed, no worker is killed before both waits have returned,
\* and no file is closed before both workers were killed.
C1_ShutdownOrdered ==
    /\ stopDone => interrupted
    /\ \A c \in Channels : closed[c] => stopDone
    /\ \A c \in Channels :
         waitRes[c] # "none" => closed["acc"] /\ closed["gyro"]
    /\ waitRes["gyro"] # "none" => waitRes["acc"] # "none"
    /\ \A c \in Channels :
         killIssued[c] => waitRes["acc"] # "none" /\ waitRes["gyro"] # "none"
    /\ \A c \in Channels :
         ~fileOpen[c] => killIssued["acc"] /\ killIssued["gyro"]

C1_Witness ==
    /\ mainPc = "done"
    /\ \A c \in Channels : ~fileOpen[c] /\ killIssued[c] /\ closed[c]

\* C2: once the shutdown procedure has been entered, it ends only in the
\* state where both consumer workers are terminated and both files are
\* closed.
C2_ShutdownCompletes ==
    (interrupted /\ mainPc \in {"done", "aborted"}) =>
        \A c \in Channels : ~WorkerAlive(c) /\ ~fileOpen[c]

\* C3: whenever the coordinator's wait on a channel returns with that
\* channel's idle signal set, the channel's queue is empty and the consumer
\* holds no popped sample.
C3_IdleMeansDrained ==
    [][\A c \in Channels :
         (mainPc = WaitLabel(c) /\ mainPc' = After(WaitLabel(c)) /\ event[c])
            => (QueueLen(c) = 0 /\ held[c] = 0)]_vars

\* C4: no sample is ever appended to a queue that has already been closed.
C4_NoPushAfterClose ==
    [][\A c \in Channels : enqueued'[c] > enqueued[c] => ~closed[c]]_vars

\* C5: a channel's queue never holds more samples than its capacity.
C5_QueueBounded == \A c \in Channels : QueueLen(c) <= MaxQueueSize

C5_Witness ==
    \E c \in Channels :
        /\ QueueLen(c) = MaxQueueSize
        /\ cb.pc = "put" /\ cb.chan = c
        /\ WorkerAlive(c)

\* C6: a callback invocation ends only with its sample enqueued and never
\* discarded: whenever the callback context returns to idle, the sample of
\* the invocation that ends is in the buffer of its channel's queue, and the
\* feeder thread that carries the buffer to the consumer is running.
C6_NoReturnWithoutEnqueue ==
    [][\A c \in Channels :
         (cb'.pc = "idle" /\
            (produced'[c] # produced[c] \/ (cb.pc = "put" /\ cb.chan = c)))
            => (enqueued'[c] = produced'[c] /\ buf'[c] # <<>>
                /\ buf'[c][Len(buf'[c])] = produced'[c]
                /\ feeder'[c] = "running")]_vars

\* C7: every callback invocation of a channel produces exactly one sample for
\* that channel's queue: the invocations delivered so far are the samples
\* pushed plus the one the callback context is pushing.
C7_OneSamplePerInvocation ==
    \A c \in Channels :
        produced[c] =
            enqueued[c] + (IF cb.pc = "put" /\ cb.chan = c THEN 1 ELSE 0)

\* C8: a consumer worker that has stopped was stopped by the coordinator's
\* forced-termination step.
C8_WorkerStopsOnlyByKill ==
    \A c \in Channels : wPc[c] \in {"killed", "crashed"} => killIssued[c]

\* C9: every line present in a channel file is complete: the header, and
\* then rows made of the write time, all payload fields and the terminator.
C9_NoPartialRow == \A c \in Channels : RowsComplete(file[c], raw)

C9_Witness ==
    \E c \in Channels :
        /\ wPc[c] = "killed"
        /\ held[c] # 0
        /\ Len(file[c]) > Len(write_header(raw))

\* C10: no shutdown step (device stop, queue close, idle wait, worker kill,
\* file close) has been executed unless the orchestrating context has caught
\* an interrupt; a disconnect or an empty poll does not start it.
C10_ShutdownOnlyOnInterrupt ==
    (\/ stopDone
     \/ \E c \in Channels :
          \/ closed[c]
          \/ waitRes[c] # "none"
          \/ killIssued[c]
          \/ wPc[c] = "killed"
          \/ ~fileOpen[c]
     \/ InShutdown(mainPc) \/ mainPc = "done")
        => interrupted

C10_Witness ==
    /\ ~connected
    /\ \E c \in Channels : event[c] /\ wPc[c] = "sleep"
    /\ mainPc = "wait"
    /\ ~interrupted

----------------------------------------------------------------------------
\* C25: each channel file starts with exactly one header line, present before
\* any data row, of four columns in raw mode and two in processed mode, and
\* every data row of the file has as many fields as that header; the row
\* built from the payload of either mode has the width of that mode's header.
C25_HeaderThenRows ==
    /\ \A r \in BOOLEAN : Len(write_header(r)) - 1 = (IF r THEN 4 ELSE 2)
    /\ \A r \in BOOLEAN : \A v \in 1..MaxSamples :
         Len(format_line(Payload(r, v))) = Len(write_header(r))
    /\ \A c \in Channels :
         LET f == file[c]
             h == write_header(raw)
         IN /\ Len(f) >= Len(h)
            /\ SubSeq(f, 1, Len(h)) = h
            /\ \A i \in (Len(h) + 1)..Len(f) : f[i].k # "hdr"
            /\ \A e \in LineEnds(f) : e - LineStart(f, e) = Len(h) - 1

C25_Witness ==
    \E c \in Channels :
        /\ Cardinality(LineEnds(file[c])) = 3
        /\ wPc[c] = "get"

\* C26 (as stated): in every state in which a running consumer holds a popped
\* sample that is not yet written, the idle signal of its channel is clear.
C26_HeldMeansNotIdle ==
    \A c \in Channels : (WorkerAlive(c) /\ held[c] # 0) => ~event[c]

\* C26: the idle signal of a channel is set only by its consumer after a pop
\* that timed out with nothing received, and it is cleared after every
\* successful pop before the row is written: whenever the consumer is at the
\* write of a popped sample, the idle signal is clear. Between the pop and
\* the clear the signal may still be set from an earlier empty poll.
C26_IdleProtocol ==
    /\ [][\A c \in Channels :
            (event'[c] /\ ~event[c]) => (wPc[c] = "set" /\ held[c] = 0)]_vars
    /\ [](\A c \in Channels : wPc[c] = "write" => (held[c] # 0 /\ ~event[c]))

C26_Witness ==
    \E c \in Channels :
        /\ wPc[c] = "clear"
        /\ held[c] # 0
        /\ event[c]

\* C27: once the device has been stopped and no callback is in flight, every
\* sample still in a channel's queue is eventually written and the idle
\* signal is eventually set, unless the consumer worker is terminated.
C27_DrainLiveness ==
    \A c \in Channels :
        (stopDone /\ cb.pc = "idle")
            ~> ((QueueLen(c) = 0 /\ held[c] = 0 /\ event[c]) \/ ~WorkerAlive(c))

\* The samples of the data rows of a file, in the order of the rows: the
\* first payload field of every row.
RowData(f) ==
    LET at == SelectSeq([i \in 1..Len(f) |-> i], LAMBDA i : f[i].k = "ts")
    IN [j \in 1..Len(at) |-> f[at[j] + 1].v]

IsPrefix(s, t) == Len(s) <= Len(t) /\ \A i \in 1..Len(s) : s[i] = t[i]

C29_ShutdownRunsToCompletion ==
    (interrupted /\ mainPc = "stop")
        ~> (\A c \in Channels : ~WorkerAlive(c) /\ ~fileOpen[c])

\* C30: a device callback that is blocked in a push on a full queue while the
\* shutdown procedure runs, its consumer worker still running, is eventually
\* released.
C30_BlockedCallbackReleased ==
    (cb.pc = "put" /\ InShutdown(mainPc) /\ WorkerAlive(cb.chan))
        ~> (cb.pc = "idle")

----------------------------------------------------------------------------
\* The session object: MetaWearDevice driven through DataStreamer, its
\* methods called in any order by one caller, and the device's execution
\* context, which delivers the completion notifications of the stages.

\* The queues, workers and files of stream_data do not exist yet.
pipelineVars == <<sampling, produced, cb, enqueued, pushed, buf, pipe, feeder,
                  closed, event, wPc, held, pending, file, fileOpen,
                  streamProc, mainPc, interrupted, stopDone, waitRes,
                  killIssued>>
configVars == <<acc_model, gyro_model, cfgPc, cbindingValues, device_options,
                resolved>>

PipelineUnstarted ==
    /\ sampling = FALSE
    /\ produced = [c \in Channels |-> 0]
    /\ cb = [pc |-> "idle", chan |-> "acc", data |-> 0]
    /\ samples = 0
    /\ enqueued = [c \in Channels |-> 0]
    /\ pushed = [c \in Channels |-> <<>>]
    /\ buf = [c \in Channels |-> <<>>]
    /\ pipe = [c \in Channels |-> <<>>]
    /\ feeder = [c \in Channels |-> "none"]
    /\ closed = [c \in Channels |-> FALSE]
    /\ event = [c \in Channels |-> FALSE]
    /\ wPc = [c \in Channels |-> "unstarted"]
    /\ held = [c \in Channels |-> 0]
    /\ pending = [c \in Channels |-> <<>>]
    /\ file = [c \in Channels |-> <<>>]
    /\ fileOpen = [c \in Channels |-> FALSE]
    /\ streamProc = "unstarted"
    /\ mainPc = "unstarted"
    /\ interrupted = FALSE
    /\ stopDone = FALSE
    /\ waitRes = [c \in Channels |-> "none"]
    /\ killIssued = [c \in Channels |-> FALSE]

\* MetaWearDevice.__init__ and DataStreamer.__init__.
SessionInit ==
    /\ PipelineUnstarted
    /\ BatchUnstarted
    /\ NoStorage
    /\ raw \in BOOLEAN
    /\ connected = FALSE
    /\ acc_model = "BMI160"
    /\ gyro_model \in GyroModels
    /\ configured = [c \in Channels |-> FALSE]
    /\ enabled = [c \in Channels |-> FALSE]
    /\ subscription = [c \in Channels |-> 0]
    /\ issued = {}
    /\ sPc = Idle
    /\ stage_requests = <<>>
    /\ fetched = {}
    /\ lastOp = "none"
    /\ error = "none"
    /\ cfgPc = CfgIdle
    /\ cbindingValues = {0}
    /\ device_options = EmptyDict
    /\ resolved = NoLookup
    /\ NoModels

GyroSupported == gyro_model \in {"BMI160", "BMI270"}

\* A chain whose first stage is the moving average.
StageOrderAverageFirst == <<"average", "rss", "delta">>

\* _create_standard_preprocessor: rss, then average, then delta.
StageOrder == <<"rss", "average", "delta">>

\* The arguments of the stages: data_processor_creator(signal, 5, 0.01) for
\* the accelerometer, (signal, 5, 3) for the gyroscope; min_delta is counted
\* in hundredths.
StageArg(c, kind) ==
    IF kind = "average" THEN 5
    ELSE IF kind = "delta" THEN (IF c = "acc" THEN 1 ELSE 300)
    ELSE 0

\* subscribe_to_sensors is called without argument by stream_data: its
\* data_processor_creator is the default, whatever the raw flag.
data_processor_creator == "create_standard_preprocessor"

\* A subscription that does not look at the configured flag.
NoConfiguredGate(c) == TRUE

\* _get_acc_signal / _get_gyro_signal: if not self.acc_configured: raise.
ConfiguredGate(c) == configured[c]

\* A wait that returns without the notification.
WaitNoBlock(j) == TRUE

\* wait_event.wait(): no timeout; passes when the handler of this very
\* invocation has set the Event.
WaitPasses(j) == stage_requests[j].fired

\* MetaWearDevice.connect: ConnectionError when the link cannot be opened,
\* otherwise the connection parameters are written.
device_connect ==
    /\ sPc.pc = "idle"
    /\ lastOp' = "connect"
    /\ \E ok \in BOOLEAN :
         IF ok
         THEN /\ issued' = {"connection_parameters"}
              /\ connected' = TRUE
              /\ error' = "none"
         ELSE /\ issued' = {}
              /\ error' = "ConnectionError"
              /\ UNCHANGED connected
    /\ UNCHANGED <<raw, configured, enabled, subscription, sPc, stage_requests,
                   fetched, samples, configVars, pipelineVars>>
    /\ UNCHANGED batchVars
    /\ UNCHANGED storageVars
    /\ UNCHANGED cacheVars

\* MetaWearDevice.configure_accelerometer, given two members of the option
\* enumerations.
configure_accelerometer ==
    /\ sPc.pc = "idle"
    /\ lastOp' = "configure_accelerometer"
    /\ issued' = {"acc_set_odr", "acc_set_range"}
    /\ configured' = [configured EXCEPT !["acc"] = TRUE]
    /\ error' = "none"
    /\ UNCHANGED <<raw, connected, enabled, subscription, sPc, stage_requests,
                   fetched, samples, configVars, pipelineVars>>
    /\ UNCHANGED batchVars
    /\ UNCHANGED storageVars
    /\ UNCHANGED cacheVars

\* MetaWearDevice.configure_gyroscope: an unsupported gyroscope is logged and
\* the flag stays false.
configure_gyroscope ==
    /\ sPc.pc = "idle"
    /\ lastOp' = "configure_gyroscope"
    /\ error' = "none"
    /\ IF GyroSupported
       THEN /\ issued' = {"gyro_set_odr", "gyro_set_range", "gyro_write_config"}
            /\ configured' = [configured EXCEPT !["gyro"] = TRUE]
       ELSE /\ issued' = {}
            /\ UNCHANGED configured
    /\ UNCHANGED <<raw, connected, enabled, subscription, sPc, stage_requests,
                   fetched, samples, configVars, pipelineVars>>
    /\ UNCHANGED batchVars
    /\ UNCHANGED storageVars
    /\ read_model({"gyro_model"})

\* DataStreamer.subscribe_to_sensors begins: the accelerometer first.
subscribe_to_sensors ==
    /\ sPc.pc = "idle"
    /\ lastOp' = "subscribe_to_sensors"
    /\ sPc' = [pc |-> "get_signal", chan |-> "acc", k |-> 0, signal_id |-> 0]
    /\ stage_requests' = <<>>
    /\ fetched' = {}
    /\ issued' = {}
    /\ error' = "none"
    /\ UNCHANGED <<raw, connected, configured, enabled, subscription, samples,
                   configVars, pipelineVars>>
    /\ UNCHANGED batchVars
    /\ UNCHANGED storageVars
    /\ UNCHANGED cacheVars

\* _get_acc_signal / _get_gyro_signal up to the call of the creator: the
\* configured flag is tested first and RuntimeError leaves
\* subscribe_to_sensors; then the raw signal is fetched from the device.
get_signal ==
    /\ sPc.pc = "get_signal"
    /\ IF ~ConfiguredGate(sPc.chan)
       THEN /\ error' = "NotConfigured"
            /\ sPc' = [sPc EXCEPT !.pc = "idle"]
            /\ UNCHANGED fetched
       ELSE IF sPc.chan = "gyro" /\ ~GyroSupported
       THEN /\ error' = "UnsupportedDevice"
            /\ sPc' = [sPc EXCEPT !.pc = "idle"]
            /\ UNCHANGED fetched
       ELSE /\ fetched' = fetched \cup {sPc.chan}
            /\ sPc' = [sPc EXCEPT
                         !.pc = IF data_processor_creator = "None"
                                THEN "subscribe" ELSE "request",
                         !.k = IF data_processor_creator = "None"
                               THEN 0 ELSE 1,
                         !.signal_id = RawSignal(sPc.chan)]
            /\ UNCHANGED error
    /\ UNCHANGED <<raw, connected, configured, enabled, subscription, issued,
                   stage_requests, lastOp, samples, configVars, pipelineVars>>
    /\ UNCHANGED batchVars
    /\ UNCHANGED storageVars
    /\ IF sPc.chan = "gyro" /\ ConfiguredGate(sPc.chan)
       THEN read_model({"gyro_model"})
       ELSE UNCHANGED cacheVars

\* _register_data_processor up to the wait: a fresh Event, processor_signal
\* = 0, and register_callable(rms_handler), which sends the request for the
\* stage. The device may call the handler before register_callable returns.
register_data_processor ==
    /\ sPc.pc = "request"
    /\ \E sync \in BOOLEAN :
         stage_requests' = Append(stage_requests,
            [chan |-> sPc.chan, k |-> sPc.k, kind |-> StageOrder[sPc.k],
             input |-> sPc.signal_id,
             arg |-> StageArg(sPc.chan, StageOrder[sPc.k]),
             fired |-> sync,
             ctx |-> IF sync THEN "call" ELSE "none",
             processor_signal |-> IF sync THEN Pointer(sPc.chan, sPc.k) ELSE 0])
    /\ sPc' = [sPc EXCEPT !.pc = "wait"]
    /\ UNCHANGED <<raw, connected, configured, enabled, subscription, issued,
                   fetched, lastOp, error, samples, configVars, pipelineVars>>
    /\ UNCHANGED batchVars
    /\ UNCHANGED storageVars
    /\ UNCHANGED cacheVars

\* processor_handler, called by the device from its own context: it stores
\* the pointer in the processor_signal of its invocation and sets that
\* invocation's Event. The notification of a request is delivered once.
processor_handler ==
    /\ \E j \in 1..Len(stage_requests) :
         /\ ~stage_requests[j].fired
         /\ stage_requests' = [stage_requests EXCEPT
              ![j].fired = TRUE,
              ![j].ctx = "device",
              ![j].processor_signal =
                  Pointer(stage_requests[j].chan, stage_requests[j].k)]
    /\ UNCHANGED <<raw, connected, configured, enabled, subscription, issued,
                   sPc, fetched, lastOp, error, samples, configVars,
                   pipelineVars>>
    /\ UNCHANGED batchVars
    /\ UNCHANGED storageVars
    /\ UNCHANGED cacheVars

\* wait_event.wait(); return processor_signal. The handle returned is the
\* input of the next stage, or the result of the creator after the last one.
wait_event_wait ==
    /\ sPc.pc = "wait"
    /\ WaitPasses(Len(stage_requests))
    /\ sPc' = [sPc EXCEPT
                 !.pc = IF sPc.k < Len(StageOrder) THEN "request"
                        ELSE "subscribe",
                 !.k = IF sPc.k < Len(StageOrder) THEN sPc.k + 1 ELSE sPc.k,
                 !.signal_id =
                     stage_requests[Len(stage_requests)].processor_signal]
    /\ UNCHANGED <<raw, connected, configured, enabled, subscription, issued,
                   stage_requests, fetched, lastOp, error, samples, configVars,
                   pipelineVars>>
    /\ UNCHANGED batchVars
    /\ UNCHANGED storageVars
    /\ UNCHANGED cacheVars

\* libmetawear.mbl_mw_datasignal_subscribe(signal_id, None, callback); after
\* the accelerometer the gyroscope, after the gyroscope
\* subscribe_to_sensors returns.
datasignal_subscribe ==
    /\ sPc.pc = "subscribe"
    /\ subscription' = [subscription EXCEPT ![sPc.chan] = sPc.signal_id]
    /\ issued' = issued \cup {"subscribe"}
    /\ IF sPc.chan = "acc"
       THEN /\ sPc' = [pc |-> "get_signal", chan |-> "gyro", k |-> 0,
                       signal_id |-> 0]
            /\ UNCHANGED stage_requests
       ELSE /\ sPc' = [sPc EXCEPT !.pc = "idle"]
            /\ stage_requests' = <<>>
    /\ UNCHANGED <<raw, connected, configured, enabled, fetched, lastOp, error,
                   samples, configVars, pipelineVars>>
    /\ UNCHANGED batchVars
    /\ UNCHANGED storageVars
    /\ UNCHANGED cacheVars

\* DataStreamer.start_streaming -> MetaWearDevice.start_streaming: the
\* accelerometer is enabled and started, then the gyroscope by its model;
\* an unsupported gyroscope raises RuntimeError after the accelerometer was
\* started.
device_start_streaming ==
    /\ sPc.pc = "idle"
    /\ lastOp' = "start_streaming"
    /\ issued' = {"acc_enable", "acc_start"} \cup
                 (IF GyroSupported THEN {"gyro_enable", "gyro_start"} ELSE {})
    /\ enabled' = [c \in Channels |->
                     IF c = "acc" THEN TRUE ELSE enabled[c] \/ GyroSupported]
    /\ error' = IF GyroSupported THEN "none" ELSE "UnsupportedDevice"
    /\ UNCHANGED <<raw, connected, configured, subscription, sPc,
                   stage_requests, fetched, samples, configVars, pipelineVars>>
    /\ UNCHANGED batchVars
    /\ UNCHANGED storageVars
    /\ read_model({"gyro_model"})

\* DataStreamer.stop_streaming -> MetaWearDevice.stop_streaming: stop and
\* disable the accelerometer, then the gyroscope by its model, sleep, reset
\* the board (which drops the processors and subscriptions it holds); then
\* self.samples = 0. An unsupported gyroscope raises RuntimeError after the
\* accelerometer commands.
device_stop_streaming ==
    /\ sPc.pc = "idle"
    /\ lastOp' = "stop_streaming"
    /\ IF GyroSupported
       THEN /\ issued' = {"acc_stop", "acc_disable", "gyro_stop",
                          "gyro_disable", "debug_reset"}
            /\ enabled' = [c \in Channels |-> FALSE]
            /\ subscription' = [c \in Channels |-> 0]
            /\ samples' = 0
            /\ error' = "none"
       ELSE /\ issued' = {"acc_stop", "acc_disable"}
            /\ enabled' = [enabled EXCEPT !["acc"] = FALSE]
            /\ error' = "UnsupportedDevice"
            /\ UNCHANGED <<subscription, samples>>
    /\ UNCHANGED <<raw, connected, configured, sPc, stage_requests, fetched,
                   configVars, pipelineVars>>
    /\ UNCHANGED batchVars
    /\ UNCHANGED storageVars
    /\ read_model({"gyro_model"})

SessionNext ==
    \/ device_connect
    \/ configure_accelerometer
    \/ configure_gyroscope
    \/ subscribe_to_sensors
    \/ get_signal
    \/ register_data_processor
    \/ processor_handler
    \/ wait_event_wait
    \/ datasignal_subscribe
    \/ device_start_streaming
    \/ device_stop_streaming

SessionSpec == SessionInit /\ [][SessionNext]_vars

\* The device delivers every notification it owes, and the caller goes on
\* when it can.
FairSessionSpec ==
    /\ SessionSpec
    /\ WF_vars(processor_handler)
    /\ WF_vars(register_data_processor)
    /\ WF_vars(wait_event_wait)

----------------------------------------------------------------------------
\* The requests of one channel's chain, and the commands that stop a channel.

ChainRequests(c) == SelectSeq(stage_requests, LAMBDA r : r.chan = c)
Kinds(rs) == [i \in 1..Len(rs) |-> rs[i].kind]
StopCommands(c) ==
    IF c = "acc" THEN {"acc_stop", "acc_disable"}
    ELSE {"gyro_stop", "gyro_disable"}

\* C11: the builder goes on to the next stage only after the notification of
\* the stage it waits for: every request but the one being waited on has
\* been notified, a notified request holds the pointer delivered for its own
\* stage, and the input of stage k+1 is the pointer delivered by the
\* notification of stage k, whether that notification came inside the
\* request call or later from the device's context.
C11_StageWaitsForNotification ==
    \A j \in 1..Len(stage_requests) :
        LET r == stage_requests[j]
        IN /\ (j < Len(stage_requests) \/ sPc.pc # "wait") => r.fired
           /\ r.fired => r.processor_signal = Pointer(r.chan, r.k)
           /\ ~r.fired => r.processor_signal = 0
           /\ r.k > 1 =>
                /\ j > 1
                /\ stage_requests[j - 1].chan = r.chan
                /\ stage_requests[j - 1].k = r.k - 1
                /\ stage_requests[j - 1].fired
                /\ r.input = stage_requests[j - 1].processor_signal
                /\ r.input = Pointer(r.chan, r.k - 1)

C11_Witness ==
    /\ Len(stage_requests) = 3
    /\ stage_requests[1].ctx = "device"
    /\ stage_requests[2].ctx = "call"
    /\ ~stage_requests[3].fired
    /\ sPc.pc = "wait"

\* C12: the wait has no timeout. While the notification of the stage being
\* waited for has not fired, the builder stays where it is: it returns
\* nothing, requests no later stage and subscribes nothing. When the device
\* delivers every notification, a build that has begun returns a handle.
C12_NoTimeout ==
    /\ [][(sPc.pc = "wait" /\ ~stage_requests[Len(stage_requests)].fired)
            => (sPc' = sPc /\ subscription' = subscription
                /\ Len(stage_requests') = Len(stage_requests))]_vars
    /\ (sPc.pc \in {"request", "wait"}) ~> (sPc.pc = "subscribe")

C12_Witness ==
    /\ sPc.pc = "wait"
    /\ sPc.k = 2
    /\ ~stage_requests[Len(stage_requests)].fired
    /\ subscription[sPc.chan] = 0

C14_StartRequiresSubscriptions ==
    (\E c \in Channels : enabled[c]) => \A c \in Channels : subscription[c] # 0

\* C15: a subscription refused with NotConfigured has fetched no signal of
\* that channel, requested no stage for it and registered no subscription
\* for it; signals are fetched, stages requested and subscriptions made only
\* for configured channels.
C15_NotConfiguredTouchesNothing ==
    /\ error = "NotConfigured" =>
         /\ sPc.pc = "idle"
         /\ ~configured[sPc.chan]
         /\ sPc.chan \notin fetched
         /\ ChainRequests(sPc.chan) = <<>>
         /\ subscription[sPc.chan] = 0
    /\ \A c \in Channels :
         (c \in fetched \/ ChainRequests(c) # <<>> \/ subscription[c] # 0)
            => configured[c]

C15_Witness ==
    /\ error = "NotConfigured"
    /\ sPc.chan = "gyro"
    /\ subscription["acc"] # 0
    /\ "acc" \in fetched

\* C16: what is subscribed follows the raw flag: in raw mode no stage was
\* requested for the channel and the handle subscribed is the raw signal;
\* otherwise three stages were requested and the handle is the last one's.
C16_RawSelectsSubscription ==
    sPc.pc = "subscribe" =>
        IF raw
        THEN /\ ChainRequests(sPc.chan) = <<>>
             /\ sPc.signal_id = RawSignal(sPc.chan)
        ELSE /\ Len(ChainRequests(sPc.chan)) = 3
             /\ sPc.signal_id = ChainRequests(sPc.chan)[3].processor_signal

\* C17: a stop sends the stop and disable commands of a channel only when
\* that channel is active.
C17_StopOnlyActiveChannels ==
    [][\A c \in Channels :
         (lastOp' = "stop_streaming" /\ UNCHANGED <<sPc, stage_requests>>
          /\ ~enabled[c])
            => StopCommands(c) \cap issued' = {}]_vars

----------------------------------------------------------------------------
\* The device object over several connections: the session's operations on
\* a board of any variant, with the loss of the connection and
\* MetaWearDevice.disconnect.

\* MetaWearDevice.__init__ on a board whose accelerometer and gyroscope are
\* of any variant.
DeviceInit ==
    /\ PipelineUnstarted
    /\ BatchUnstarted
    /\ NoStorage
    /\ raw \in BOOLEAN
    /\ connected = FALSE
    /\ acc_model \in AccModels
    /\ gyro_model \in GyroModels
    /\ configured = [c \in Channels |-> FALSE]
    /\ enabled = [c \in Channels |-> FALSE]
    /\ subscription = [c \in Channels |-> 0]
    /\ issued = {}
    /\ sPc = Idle
    /\ stage_requests = <<>>
    /\ fetched = {}
    /\ lastOp = "none"
    /\ error = "none"
    /\ cfgPc = CfgIdle
    /\ cbindingValues = {0}
    /\ device_options = EmptyDict
    /\ resolved = NoLookup
    /\ NoModels

\* MetaWearDevice._disconnect_callback, called by the vendor's library when
\* the connection is lost: a warning, and connected = False.
device_disconnect_callback ==
    /\ connected
    /\ connected' = FALSE
    /\ lastOp' = "disconnect_callback"
    /\ error' = "none"
    /\ issued' = {}
    /\ UNCHANGED <<raw, configured, enabled, subscription, sPc, stage_requests,
                   fetched, samples, configVars, pipelineVars>>
    /\ UNCHANGED batchVars
    /\ UNCHANGED storageVars
    /\ UNCHANGED cacheVars

\* MetaWearDevice.disconnect: the board is reset, which drops what it holds,
\* and the connection is closed, upon which the library calls
\* _disconnect_callback.
device_disconnect ==
    /\ sPc.pc = "idle"
    /\ connected
    /\ lastOp' = "disconnect"
    /\ error' = "none"
    /\ issued' = {"debug_reset"}
    /\ enabled' = [c \in Channels |-> FALSE]
    /\ subscription' = [c \in Channels |-> 0]
    /\ connected' = FALSE
    /\ UNCHANGED <<raw, configured, sPc, stage_requests, fetched, samples,
                   configVars, pipelineVars>>
    /\ UNCHANGED batchVars
    /\ UNCHANGED storageVars
    /\ UNCHANGED cacheVars

DeviceNext ==
    \/ SessionNext
    \/ device_disconnect_callback
    \/ device_disconnect

DeviceSpec == DeviceInit /\ [][DeviceNext]_vars

\* The variant of a channel's sensor is one the code knows.
Supported(c) ==
    IF c = "acc" THEN acc_model # "unknown" ELSE gyro_model # "unknown"

\* The operation that configures a channel, and the writes it sends.
ConfigureOp(c) ==
    IF c = "acc" THEN "configure_accelerometer" ELSE "configure_gyroscope"
ConfigureWrites(c) ==
    IF c = "acc" THEN {"acc_set_odr", "acc_set_range"}
    ELSE {"gyro_set_odr", "gyro_set_range"}

\* C31: both configured flags are false initially; a flag becomes true only
\* in a configure call of its channel that wrote the frequency and the range
\* to the device; on an unsupported variant the configure call of the
\* channel writes nothing and the flag stays false.
C31_ConfiguredOnlyByWrite ==
    /\ \A c \in Channels : ~configured[c]
    /\ [][\A c \in Channels :
            /\ (configured'[c] /\ ~configured[c])
                  => /\ lastOp' = ConfigureOp(c)
                     /\ ConfigureWrites(c) \subseteq issued'
            /\ (lastOp' = ConfigureOp(c) /\ ~Supported(c))
                  => /\ ConfigureWrites(c) \cap issued' = {}
                     /\ ~configured'[c]]_vars

\* The board has been reset by the last operation, or the connection was
\* lost: the device holds no configuration any more.
ConfigurationLost ==
    \/ lastOp \in {"stop_streaming", "disconnect"} /\ "debug_reset" \in issued
    \/ lastOp = "disconnect_callback"

\* C33: after a stop that reset the board, and after a disconnect, both
\* configured flags are false.
C33_ConfiguredMeansDeviceHolds ==
    ConfigurationLost => \A c \in Channels : ~configured[c]

\* C34: a variant identifier is looked up on the board only when it is not
\* cached, so at most once per connection, and a cached identifier is
\* returned unchanged; a new connection after a disconnect empties the cache
\* of every identifier that was looked up during an earlier connection.
C34_CachedPerConnection ==
    [][\A key \in ModelKeys :
         /\ Len(lookups'[key]) > Len(lookups[key])
               => key \notin DOMAIN device_info
         /\ (key \in DOMAIN device_info /\ key \in DOMAIN device_info')
               => device_info'[key] = device_info[key]
         /\ (~connected /\ connected' /\ key \in DOMAIN device_info
             /\ \E i \in 1..Len(lookups[key]) : lookups[key][i])
               => key \notin DOMAIN device_info']_vars

----------------------------------------------------------------------------
\* The configuration flows of cli.py and the option catalogue of
\* MetaWearDevice.

Indices == -1..(MaxOptionValue + 1)
ValueSets == (SUBSET (0..MaxOptionValue)) \ {{}}

\* The attributes of one of the vendor's enumeration classes: its options,
\* each with the value the vendor gives it, and the attributes every class
\* has (__module__, __doc__, ...). The vendor's module is not part of the
\* repository: one draw of option values stands for each of its classes.
cbindings(enum) ==
    {[dunder |-> FALSE, value |-> v] : v \in cbindingValues}
        \cup {[dunder |-> TRUE, value |-> -1]}

\* _parse_option_enum: an Enum of the attributes whose name has no double
\* underscore, each member keeping the vendor's value; the members are
\* looked up by that value.
parse_option_enum(cbinding_enum) ==
    {a.value : a \in {x \in cbinding_enum : ~x.dunder}}

return_acc_freq_options(m) ==
    IF m = "BMI160" THEN parse_option_enum(cbindings("AccBmi160Odr"))
    ELSE IF m = "BMI270" THEN parse_option_enum(cbindings("AccBmi270Odr"))
    ELSE IF m = "BMA255" THEN parse_option_enum(cbindings("AccBma255Odr"))
    ELSE IF m = "MMA8452Q" THEN parse_option_enum(cbindings("AccMma8452qOdr"))
    ELSE None

return_acc_range_options(m) ==
    IF m \in {"BMI160", "BMI270", "BMA255"}
    THEN parse_option_enum(cbindings("AccBoschRange"))
    ELSE IF m = "MMA8452Q"
    THEN parse_option_enum(cbindings("AccMma8452qRange"))
    ELSE None

return_gyro_freq_options(m) ==
    IF m = "BMI160" THEN parse_option_enum(cbindings("GyroBoschOdr"))
    ELSE IF m = "BMI270" THEN parse_option_enum(cbindings("GyroBoschOdr"))
    ELSE None

return_gyro_range_options(m) ==
    IF m = "BMI160" THEN parse_option_enum(cbindings("GyroBoschRange"))
    ELSE IF m = "BMI270" THEN parse_option_enum(cbindings("GyroBoschRange"))
    ELSE None

\* _get_device_options: the four option sets, or {} ("Device not
\* supported") when one of them is None.
get_device_options ==
    LET opts == [k \in {"acc_freq", "acc_range", "gyro_freq", "gyro_range"} |->
                   IF k = "acc_freq" THEN return_acc_freq_options(acc_model)
                   ELSE IF k = "gyro_freq"
                   THEN return_gyro_freq_options(gyro_model)
                   ELSE IF k = "acc_range"
                   THEN return_acc_range_options(acc_model)
                   ELSE return_gyro_range_options(gyro_model)]
    IN IF \E k \in DOMAIN opts : opts[k] = None THEN EmptyDict ELSE opts

\* A lookup that falls back to the lowest option.
resolve_or_default(values, i) ==
    [ok |-> TRUE,
     option |-> IF i \in values THEN {i}
                ELSE {CHOOSE v \in values : \A w \in values : v <= w}]

\* acc_freq_options(int(acc_freq)): the member whose value is the integer,
\* ValueError when no member has it.
resolve(values, i) ==
    [ok |-> i \in values, option |-> IF i \in values THEN {i} ELSE {}]

Lookup(kind, i) ==
    [kind |-> kind, values |-> device_options[kind], index |-> i,
     ok |-> resolve(device_options[kind], i).ok,
     option |-> resolve(device_options[kind], i).option]

ConfigInit ==
    /\ PipelineUnstarted
    /\ BatchUnstarted
    /\ NoStorage
    /\ raw = FALSE
    /\ connected = FALSE
    /\ acc_model \in AccModels
    /\ gyro_model \in GyroModels
    /\ cbindingValues \in ValueSets
    /\ configured = [c \in Channels |-> FALSE]
    /\ enabled = [c \in Channels |-> FALSE]
    /\ subscription = [c \in Channels |-> 0]
    /\ issued = {}
    /\ sPc = Idle
    /\ stage_requests = <<>>
    /\ fetched = {}
    /\ lastOp = "none"
    /\ error = "none"
    /\ cfgPc = CfgIdle
    /\ device_options = EmptyDict
    /\ resolved = NoLookup
    /\ NoModels

configRest == <<acc_model, gyro_model, cbindingValues, enabled, subscription,
                sPc, stage_requests, fetched, samples, pipelineVars>>

\* MetaWearDevice.__init__ of a new device object: not connected, nothing
\* configured, device_info = {}.
new_device ==
    /\ connected' = FALSE
    /\ configured' = [c \in Channels |-> FALSE]
    /\ device_info' = EmptyDict
    /\ lookups' = [key \in ModelKeys |-> <<>>]

\* _choose_device's loop calls _input_device_config(mac_address), which
\* begins with device = MetaWearDevice(mac_address).
input_device_config ==
    /\ cfgPc.step = "idle"
    /\ cfgPc' = [flow |-> "input", step |-> "options", n |-> 0]
    /\ lastOp' = "input_device_config"
    /\ error' = "none"
    /\ issued' = {}
    /\ resolved' = NoLookup
    /\ device_options' = EmptyDict
    /\ new_device
    /\ UNCHANGED <<raw, configRest>>
    /\ UNCHANGED batchVars
    /\ UNCHANGED storageVars

\* log_in: device = MetaWearDevice(device_config['mac_address']), then
\* _configure_device(device, device_config) with a saved or a newly entered
\* configuration.
configure_device ==
    /\ cfgPc.step = "idle"
    /\ cfgPc' = [flow |-> "configure", step |-> "options", n |-> 0]
    /\ lastOp' = "configure_device"
    /\ error' = "none"
    /\ issued' = {}
    /\ resolved' = NoLookup
    /\ device_options' = EmptyDict
    /\ new_device
    /\ UNCHANGED <<raw, configRest>>
    /\ UNCHANGED batchVars
    /\ UNCHANGED storageVars

\* device_options = _get_device_options(device), first statement of both.
call_get_device_options ==
    /\ cfgPc.step = "options"
    /\ device_options' = get_device_options
    /\ cfgPc' = [cfgPc EXCEPT
                   !.step = IF cfgPc.flow = "input" THEN "unpack"
                            ELSE "connect"]
    /\ UNCHANGED <<raw, connected, configured, issued, lastOp, error, resolved,
                   configRest>>
    /\ UNCHANGED batchVars
    /\ UNCHANGED storageVars
    /\ read_model(ModelKeys)

\* acc_freq_options, ... = device_options.values(): unpacking {} raises
\* ValueError, outside any try.
input_unpack ==
    /\ cfgPc.flow = "input" /\ cfgPc.step = "unpack"
    /\ IF DOMAIN device_options = {}
       THEN /\ error' = "ValueError"
            /\ cfgPc' = [cfgPc EXCEPT !.step = "failed"]
       ELSE /\ cfgPc' = [cfgPc EXCEPT !.step = "choose", !.n = 1]
            /\ UNCHANGED error
    /\ UNCHANGED <<raw, connected, configured, issued, lastOp, resolved,
                   device_options, configRest>>
    /\ UNCHANGED batchVars
    /\ UNCHANGED storageVars
    /\ UNCHANGED cacheVars

\* One prompt: try: options(int(answer)) except ValueError: print; return {}
\* and _choose_device asks again.
input_choice ==
    /\ cfgPc.flow = "input" /\ cfgPc.step = "choose"
    /\ \E i \in Indices :
         /\ resolved' = Lookup(OptionKinds[cfgPc.n], i)
         /\ IF resolved'.ok
            THEN /\ cfgPc' = IF cfgPc.n < Len(OptionKinds)
                             THEN [cfgPc EXCEPT !.n = @ + 1]
                             ELSE [cfgPc EXCEPT !.step = "raw"]
                 /\ UNCHANGED error
            ELSE /\ cfgPc' = [cfgPc EXCEPT !.step = "idle"]
                 /\ error' = "InvalidOption"
    /\ UNCHANGED <<raw, connected, configured, issued, lastOp, device_options,
                   configRest>>
    /\ UNCHANGED batchVars
    /\ UNCHANGED storageVars
    /\ UNCHANGED cacheVars

\* raw = input(...) in 'Yy'; the configuration is returned.
input_raw ==
    /\ cfgPc.flow = "input" /\ cfgPc.step = "raw"
    /\ \E r \in BOOLEAN : raw' = r
    /\ cfgPc' = [cfgPc EXCEPT !.step = "idle"]
    /\ UNCHANGED <<connected, configured, issued, lastOp, error, resolved,
                   device_options, configRest>>
    /\ UNCHANGED batchVars
    /\ UNCHANGED storageVars
    /\ UNCHANGED cacheVars

\* device.connect(), second statement of _configure_device.
cfg_connect ==
    /\ cfgPc.flow = "configure" /\ cfgPc.step = "connect"
    /\ \E ok \in BOOLEAN :
         IF ok
         THEN /\ issued' = issued \cup {"connection_parameters"}
              /\ connected' = TRUE
              /\ cfgPc' = [cfgPc EXCEPT !.step = "choose", !.n = 1]
              /\ UNCHANGED error
         ELSE /\ error' = "ConnectionError"
              /\ cfgPc' = [cfgPc EXCEPT !.step = "failed"]
              /\ UNCHANGED <<issued, connected>>
    /\ UNCHANGED <<raw, configured, lastOp, resolved, device_options,
                   configRest>>
    /\ UNCHANGED batchVars
    /\ UNCHANGED storageVars
    /\ UNCHANGED cacheVars

\* device_options['acc_freq_options'](device_config['acc_frequency']) and
\* the three like it: KeyError on {}, ValueError on a value no member has;
\* neither is caught. The two accelerometer arguments are evaluated before
\* configure_accelerometer is called, the gyroscope's after it returned.
cfg_choice ==
    /\ cfgPc.flow = "configure" /\ cfgPc.step = "choose"
    /\ IF DOMAIN device_options = {}
       THEN /\ error' = "KeyError"
            /\ cfgPc' = [cfgPc EXCEPT !.step = "failed"]
            /\ UNCHANGED resolved
       ELSE \E i \in Indices :
              /\ resolved' = Lookup(OptionKinds[cfgPc.n], i)
              /\ IF resolved'.ok
                 THEN /\ cfgPc' = IF cfgPc.n = 2
                                  THEN [cfgPc EXCEPT !.step = "write_acc"]
                                  ELSE IF cfgPc.n = 4
                                  THEN [cfgPc EXCEPT !.step = "write_gyro"]
                                  ELSE [cfgPc EXCEPT !.n = @ + 1]
                      /\ UNCHANGED error
                 ELSE /\ cfgPc' = [cfgPc EXCEPT !.step = "failed"]
                      /\ error' = "InvalidOption"
    /\ UNCHANGED <<raw, connected, configured, issued, lastOp, device_options,
                   configRest>>
    /\ UNCHANGED batchVars
    /\ UNCHANGED storageVars
    /\ UNCHANGED cacheVars

\* device.configure_accelerometer(...) inside _configure_device.
cfg_configure_accelerometer ==
    /\ cfgPc.flow = "configure" /\ cfgPc.step = "write_acc"
    /\ issued' = issued \cup {"acc_set_odr", "acc_set_range"}
    /\ configured' = [configured EXCEPT !["acc"] = TRUE]
    /\ cfgPc' = [cfgPc EXCEPT !.step = "choose", !.n = 3]
    /\ UNCHANGED <<raw, connected, lastOp, error, resolved, device_options,
                   configRest>>
    /\ UNCHANGED batchVars
    /\ UNCHANGED storageVars
    /\ UNCHANGED cacheVars

\* device.configure_gyroscope(...) inside _configure_device, which returns.
cfg_configure_gyroscope ==
    /\ cfgPc.flow = "configure" /\ cfgPc.step = "write_gyro"
    /\ IF GyroSupported
       THEN /\ issued' = issued \cup {"gyro_set_odr", "gyro_set_range",
                                      "gyro_write_config"}
            /\ configured' = [configured EXCEPT !["gyro"] = TRUE]
       ELSE UNCHANGED <<issued, configured>>
    /\ cfgPc' = [cfgPc EXCEPT !.step = "idle"]
    /\ UNCHANGED <<raw, connected, lastOp, error, resolved, device_options,
                   configRest>>
    /\ UNCHANGED batchVars
    /\ UNCHANGED storageVars
    /\ read_model({"gyro_model"})

ConfigNext ==
    \/ input_device_config
    \/ configure_device
    \/ call_get_device_options
    \/ input_unpack
    \/ input_choice
    \/ input_raw
    \/ cfg_connect
    \/ cfg_choice
    \/ cfg_configure_accelerometer
    \/ cfg_configure_gyroscope

ConfigSpec == ConfigInit /\ [][ConfigNext]_vars

\* C18: when _configure_device rejects the accelerometer frequency with
\* InvalidOption, nothing has been written to the device: no configuration
\* and no connection parameter.
C18_RejectBeforeWrite ==
    (lastOp = "configure_device" /\ error = "InvalidOption"
     /\ resolved.kind = "acc_freq") => issued = {}

\* C19 (by position): a lookup succeeds exactly for the integers 0..n-1, n
\* the number of options of the set.
C19_ResolveByPosition ==
    resolved.kind # "none" =>
        (resolved.ok <=> resolved.index \in 0..(Cardinality(resolved.values) - 1))

\* C19 (by value): a lookup succeeds exactly for the integers that are the
\* value of an option of the set, and then yields that option; for every
\* other integer it fails and yields no option, never a default.
C19_ResolveByValue ==
    resolved.kind # "none" =>
        /\ resolved.ok <=> resolved.index \in resolved.values
        /\ resolved.ok => resolved.option = {resolved.index}
        /\ ~resolved.ok => resolved.option = {}

C19_Witness ==
    /\ resolved.kind # "none"
    /\ ~resolved.ok
    /\ resolved.index \in 0..(Cardinality(resolved.values) - 1)
    /\ error = "InvalidOption"

\* C20: with an unrecognized accelerometer or gyroscope variant, neither
\* configuration flow ends in an unhandled error.
C20_UnsupportedNeverCrashes ==
    (acc_model = "unknown" \/ gyro_model = "unknown")
        => error \notin {"ValueError", "KeyError"}

\* C32: when _configure_device rejects any of the four indices with
\* InvalidOption, no configuration write of either sensor has been sent and
\* both configured flags are as they were when the step began, false.
C32_AllOrNothing ==
    (cfgPc.flow = "configure" /\ error = "InvalidOption")
        => /\ \A c \in Channels : ConfigureWrites(c) \cap issued = {}
           /\ \A c \in Channels : ~configured[c]

\* C35: in the configuration flows every lookup of a variant identifier is
\* sent while the device is connected, so no identifier is read or cached
\* before connect has succeeded.
C35_LookupOnlyWhenConnected ==
    \A key \in ModelKeys : \A i \in 1..Len(lookups[key]) : lookups[key][i]

----------------------------------------------------------------------------
\* The offline aggregation: scripts/process_session.py, main and the
\* functions it calls, on the two csv files of one session.

\* The write time of a row has a sub-second part; the model counts time in
\* ticks of half a second.
TicksPerSecond == 2

\* np.linspace(first, last, 1000), and the thresholds of the two channels.
NumProbes == 1000
AccThreshold == 10
GyroThreshold == 100

\* The stage values, and the counts up to which a bin is deep or light sleep.
Deep == 1
Light == 2
Awake == 3
DeepLimit == 20
LightLimit == 200

Abs(x) == IF x < 0 THEN -x ELSE x

\* A row of a channel file as pd.read_csv returns it: the write time and the
\* first payload column.
Row(t, a) == [timestamp |-> t, value |-> a]

\* A file of n rows, written one tick apart from tick 0 on, all of value a.
Session(n, a) == [i \in 1..n |-> Row(i - 1, a)]

AccAmplitudes == {0, 6, -11}
GyroAmplitudes == {0, 60, -101}
Sessions(amplitudes) == {Session(n, a) : n \in 1..MaxRows, a \in amplitudes}

\* The session whose four rows each make an event, at the seconds 5, 12, 19
\* and 47; the last row is written f ticks after the start of second 47.
ExampleEvents == <<5, 12, 19, 47>>
ExampleSession(f) ==
    [i \in 1..4 |->
        Row(ExampleEvents[i] * TicksPerSecond + (IF i = 4 THEN f ELSE 0), -11)]
ExampleSessions == {ExampleSession(f) : f \in 0..(TicksPerSecond - 1)}

\* A detection that emits as soon as the running sum reaches the threshold.
RECURSIVE cumulative_sum_from_reached(_, _, _, _)
cumulative_sum_from_reached(rows, threshold, i, cumsum) ==
    IF i > Len(rows) THEN <<>>
    ELSE LET acc == Abs(rows[i].value)
         IN IF cumsum + acc >= threshold
            THEN <<rows[i].timestamp \div TicksPerSecond>>
                     \o cumulative_sum_from_reached(rows, threshold, i + 1, 0)
            ELSE cumulative_sum_from_reached(rows, threshold, i + 1,
                                             cumsum + acc)

\* cumulative_sum: the running sum of |value|; a row that takes it above the
\* threshold emits int(timestamp) and resets it.
RECURSIVE cumulative_sum_from(_, _, _, _)
cumulative_sum_from(rows, threshold, i, cumsum) ==
    IF i > Len(rows) THEN <<>>
    ELSE LET acc == Abs(rows[i].value)
         IN IF cumsum + acc > threshold
            THEN <<rows[i].timestamp \div TicksPerSecond>>
                     \o cumulative_sum_from(rows, threshold, i + 1, 0)
            ELSE cumulative_sum_from(rows, threshold, i + 1, cumsum + acc)

cumulative_sum(rows, threshold) == cumulative_sum_from(rows, threshold, 1, 0)

\* np.searchsorted(events, np.linspace(first, last, 1000)): for every probe
\* first + k (last - first) / 999, k = 0..999, the number of events strictly
\* before it (events in seconds, first and last in ticks).
searchsorted(events, first, last) ==
    [p \in 1..NumProbes |->
        Cardinality({j \in 1..Len(events) :
            events[j] * TicksPerSecond * (NumProbes - 1)
                < first * (NumProbes - 1) + (p - 1) * (last - first)})]

\* range(start, stop, step) for a positive step.
range(start, stop, step) ==
    [i \in 1..((stop - start + step - 1) \div step) |-> start + (i - 1) * step]

\* aggregate_data: step_size = data[-1] // bins; one count per i of
\* range(0, data[-1], step_size): the probes with i < data <= i + step_size.
\* range raises ValueError for a step of zero.
aggregate_data(data, b) ==
    LET last == data[Len(data)]
        step_size == last \div b
    IN IF step_size = 0
       THEN [error |-> "ValueError", aggregate |-> <<>>]
       ELSE LET starts == range(0, last, step_size)
            IN [error |-> "none",
                aggregate |->
                    [w \in 1..Len(starts) |->
                        Cardinality({p \in 1..Len(data) :
                            /\ starts[w] < data[p]
                            /\ data[p] <= starts[w] + step_size})]]

\* A classification that is deep only when both counts are low.
stage_of_both(a, g) ==
    IF a <= DeepLimit /\ g <= DeepLimit THEN Deep
    ELSE IF a <= LightLimit /\ g <= LightLimit THEN Light
    ELSE Awake

\* The body of aggregate_to_stages' loop: any([...<= 20]) gives 1, else
\* all([... <= 200]) gives 2, else 3.
stage_of(a, g) ==
    IF a <= DeepLimit \/ g <= DeepLimit THEN Deep
    ELSE IF a <= LightLimit /\ g <= LightLimit THEN Light
    ELSE Awake

\* aggregate_to_stages: one stage per element of acc_agg; gyro_agg[i] raises
\* IndexError when gyro_agg is the shorter one.
aggregate_to_stages(acc_agg, gyro_agg) ==
    IF Len(gyro_agg) < Len(acc_agg)
    THEN [error |-> "IndexError", stages |-> <<>>]
    ELSE [error |-> "none",
          stages |-> [i \in 1..Len(acc_agg) |-> stage_of(acc_agg[i], gyro_agg[i])]]

\* The pipeline, the session object and the configuration flows are not
\* part of the offline stage.
NoSession ==
    /\ PipelineUnstarted
    /\ raw = FALSE
    /\ connected = FALSE
    /\ acc_model = "BMI160"
    /\ gyro_model = "BMI160"
    /\ configured = [c \in Channels |-> FALSE]
    /\ enabled = [c \in Channels |-> FALSE]
    /\ subscription = [c \in Channels |-> 0]
    /\ issued = {}
    /\ sPc = Idle
    /\ stage_requests = <<>>
    /\ fetched = {}
    /\ lastOp = "none"
    /\ error = "none"
    /\ cfgPc = CfgIdle
    /\ cbindingValues = {0}
    /\ device_options = EmptyDict
    /\ resolved = NoLookup
    /\ NoModels

sessionRest == <<raw, connected, samples, pipelineVars, setupVars,
                 storageVars>>

\* main after pd.read_csv of the two files and the parsing of --bins.
BatchInit ==
    /\ NoSession
    /\ NoStorage
    /\ acc_data \in Sessions(AccAmplitudes) \cup ExampleSessions
    /\ gyro_data \in Sessions(GyroAmplitudes)
    /\ bins \in 1..MaxBins
    /\ batchPc = "cumulative_sum"
    /\ acc_data_cumulative = <<>>
    /\ gyro_data_cumulative = <<>>
    /\ acc_sorted_insert = <<>>
    /\ gyro_sorted_insert = <<>>
    /\ acc_aggregate = <<>>
    /\ gyro_aggregate = <<>>
    /\ stages = <<>>
    /\ batchError = "none"

\* acc_data_cumulative = cumulative_sum(acc_data, threshold=10)
\* gyro_data_cumulative = cumulative_sum(gyro_data, threshold=100)
main_cumulative_sum ==
    /\ batchPc = "cumulative_sum"
    /\ acc_data_cumulative' = cumulative_sum(acc_data, AccThreshold)
    /\ gyro_data_cumulative' = cumulative_sum(gyro_data, GyroThreshold)
    /\ batchPc' = "acc_searchsorted"
    /\ UNCHANGED <<acc_data, gyro_data, bins, acc_sorted_insert,
                   gyro_sorted_insert, acc_aggregate, gyro_aggregate, stages,
                   batchError, sessionRest>>

\* timepoints = np.linspace(acc_data.iloc[0, 0], acc_data.iloc[-1, 0], 1000)
\* acc_sorted_insert = np.searchsorted(acc_data_cumulative, timepoints)
main_acc_searchsorted ==
    /\ batchPc = "acc_searchsorted"
    /\ acc_sorted_insert' =
           searchsorted(acc_data_cumulative, acc_data[1].timestamp,
                        acc_data[Len(acc_data)].timestamp)
    /\ batchPc' = "acc_aggregate"
    /\ UNCHANGED <<acc_data, gyro_data, bins, acc_data_cumulative,
                   gyro_data_cumulative, gyro_sorted_insert, acc_aggregate,
                   gyro_aggregate, stages, batchError, sessionRest>>

\* acc_aggregate = aggregate_data(acc_sorted_insert, bins=args.bins)
main_acc_aggregate ==
    /\ batchPc = "acc_aggregate"
    /\ LET r == aggregate_data(acc_sorted_insert, bins)
       IN /\ acc_aggregate' = r.aggregate
          /\ batchError' = r.error
          /\ batchPc' = IF r.error = "none" THEN "gyro_searchsorted"
                        ELSE "failed"
    /\ UNCHANGED <<acc_data, gyro_data, bins, acc_data_cumulative,
                   gyro_data_cumulative, acc_sorted_insert,
                   gyro_sorted_insert, gyro_aggregate, stages, sessionRest>>

\* timepoints = np.linspace(gyro_data.iloc[0, 0], gyro_data.iloc[-1, 0], 1000)
\* gyro_sorted_insert = np.searchsorted(gyro_data_cumulative, timepoints)
main_gyro_searchsorted ==
    /\ batchPc = "gyro_searchsorted"
    /\ gyro_sorted_insert' =
           searchsorted(gyro_data_cumulative, gyro_data[1].timestamp,
                        gyro_data[Len(gyro_data)].timestamp)
    /\ batchPc' = "gyro_aggregate"
    /\ UNCHANGED <<acc_data, gyro_data, bins, acc_data_cumulative,
                   gyro_data_cumulative, acc_sorted_insert, acc_aggregate,
                   gyro_aggregate, stages, batchError, sessionRest>>

\* gyro_aggregate = aggregate_data(gyro_sorted_insert, bins=args.bins)
main_gyro_aggregate ==
    /\ batchPc = "gyro_aggregate"
    /\ LET r == aggregate_data(gyro_sorted_insert, bins)
       IN /\ gyro_aggregate' = r.aggregate
          /\ batchError' = r.error
          /\ batchPc' = IF r.error = "none" THEN "stages" ELSE "failed"
    /\ UNCHANGED <<acc_data, gyro_data, bins, acc_data_cumulative,
                   gyro_data_cumulative, acc_sorted_insert,
                   gyro_sorted_insert, acc_aggregate, stages, sessionRest>>

\* stages = aggregate_to_stages(acc_aggregate, gyro_aggregate), printed by
\* pretty_print_stages.
main_stages ==
    /\ batchPc = "stages"
    /\ LET r == aggregate_to_stages(acc_aggregate, gyro_aggregate)
       IN /\ stages' = r.stages
          /\ batchError' = r.error
          /\ batchPc' = IF r.error = "none" THEN "done" ELSE "failed"
    /\ UNCHANGED <<acc_data, gyro_data, bins, acc_data_cumulative,
                   gyro_data_cumulative, acc_sorted_insert,
                   gyro_sorted_insert, acc_aggregate, gyro_aggregate,
                   sessionRest>>

BatchNext ==
    \/ main_cumulative_sum
    \/ main_acc_searchsorted
    \/ main_acc_aggregate
    \/ main_gyro_searchsorted
    \/ main_gyro_aggregate
    \/ main_stages

BatchSpec == BatchInit /\ [][BatchNext]_vars

\* C21: for every session and every bins >= 1 the aggregator produces
\* exactly bins accelerometer counts, exactly bins gyroscope counts and
\* exactly bins stage values.
C21_ExactlyBinsValues ==
    /\ batchPc # "failed"
    /\ batchPc \in {"gyro_searchsorted", "gyro_aggregate", "stages", "done"}
           => Len(acc_aggregate) = bins
    /\ batchPc \in {"stages", "done"} => Len(gyro_aggregate) = bins
    /\ batchPc = "done" => Len(stages) = bins

StrictlyAscending(events) ==
    \A k \in 1..(Len(events) - 1) : events[k] < events[k + 1]

\* C23: for rows whose timestamps are ascending, the events emitted by burst
\* detection are strictly ascending.
C23_EventsStrictlyAscending ==
    batchPc # "cumulative_sum" =>
        /\ StrictlyAscending(acc_data_cumulative)
        /\ StrictlyAscending(gyro_data_cumulative)

RECURSIVE SumSeq(_)
SumSeq(q) == IF q = <<>> THEN 0 ELSE Head(q) + SumSeq(Tail(q))

\* The counts of a channel come from windows of one width that do not
\* overlap: window w is ((w - 1) width, w width], every probe's cumulative
\* value lies in at most one of them, and the counts are non-negative and
\* add up to at most the number of probes.
Partitioned(data, counts, b) ==
    LET width == data[Len(data)] \div b
    IN /\ \A p \in 1..Len(data) :
            Cardinality({w \in 1..Len(counts) :
                (w - 1) * width < data[p] /\ data[p] <= w * width}) <= 1
       /\ \A w \in 1..Len(counts) :
            counts[w] = Cardinality({p \in 1..Len(data) :
                (w - 1) * width < data[p] /\ data[p] <= w * width})
       /\ \A w \in 1..Len(counts) : counts[w] >= 0
       /\ SumSeq(counts) <= NumProbes

\* C24: binning counts every probe's cumulative value in at most one of its
\* equal, non-overlapping windows, the counts are non-negative and sum to at
\* most the number of probes, and for the events 5, 12, 19, 47 with bins = 2
\* exactly two counts are produced.
C24_BinningPartitions ==
    /\ batchPc \in {"gyro_searchsorted", "gyro_aggregate", "stages", "done"}
           => /\ Partitioned(acc_sorted_insert, acc_aggregate, bins)
              /\ (acc_data_cumulative = ExampleEvents /\ bins = 2)
                     => Len(acc_aggregate) = 2
    /\ batchPc \in {"stages", "done"}
           => Partitioned(gyro_sorted_insert, gyro_aggregate, bins)
    /\ (acc_data_cumulative = ExampleEvents /\ bins = 2) => batchPc # "failed"

----------------------------------------------------------------------------
\* Stage classification on its own: aggregate_to_stages applied to bin counts
\* around its two limits.

StageCounts == {DeepLimit, DeepLimit + 1, LightLimit, LightLimit + 1}

StagesInit ==
    /\ NoSession
    /\ NoStorage
    /\ acc_data = <<>>
    /\ gyro_data = <<>>
    /\ bins \in 1..MaxBins
    /\ batchPc = "stages"
    /\ acc_data_cumulative = <<>>
    /\ gyro_data_cumulative = <<>>
    /\ acc_sorted_insert = <<>>
    /\ gyro_sorted_insert = <<>>
    /\ acc_aggregate \in [1..bins -> StageCounts]
    /\ gyro_aggregate \in [1..bins -> StageCounts]
    /\ stages = <<>>
    /\ batchError = "none"

StagesNext == main_stages

StagesSpec == StagesInit /\ [][StagesNext]_vars

\* C22: the stage of a bin is Deep exactly when its accelerometer count or
\* its gyroscope count is at most 20, Light exactly when both are above 20
\* and both are at most 200, and Awake in every other case; it is defined
\* for every bin, and bins with the same pair of counts have the same stage.
C22_StageClassification ==
    batchPc # "stages" =>
        /\ batchPc = "done"
        /\ Len(stages) = Len(acc_aggregate)
        /\ \A i \in 1..Len(stages) :
             LET a == acc_aggregate[i]
                 g == gyro_aggregate[i]
             IN /\ stages[i] \in {1, 2, 3}
                /\ stages[i] = 1 <=> (a <= 20 \/ g <= 20)
                /\ stages[i] = 2 <=> (a > 20 /\ g > 20 /\ a <= 200 /\ g <= 200)
                /\ stages[i] = 3 <=> ((a > 200 \/ g > 200) /\ a > 20 /\ g > 20)
        /\ \A i, j \in 1..Len(stages) :
             (acc_aggregate[i] = acc_aggregate[j]
              /\ gyro_aggregate[i] = gyro_aggregate[j]) => stages[i] = stages[j]

C22_Witness ==
    /\ batchPc = "done"
    /\ acc_aggregate = <<20, 200, 201>>
    /\ gyro_aggregate = <<201, 21, 21>>
    /\ stages = <<1, 2, 3>>

\* The cumulative values of a channel are one per probe, never decrease, and
\* each is the number of events at or before its probe first + k (last -
\* first) / 999 (events in seconds, the rows' times in ticks).
CountsAtOrBefore(events, rows, insert) ==
    LET first == rows[1].timestamp
        last == rows[Len(rows)].timestamp
    IN /\ Len(insert) = 1000
       /\ \A p \in 1..1000 :
             insert[p] = Cardinality({j \in 1..Len(events) :
                 events[j] * TicksPerSecond * 999
                     <= first * 999 + (p - 1) * (last - first)})
       /\ \A p \in 1..999 : insert[p] <= insert[p + 1]

\* C37: for each of the 1000 probes the cumulative value is the number of
\* events at or before the probe, an event at the probe's time included; the
\* sequence of a channel has length 1000 and is non-decreasing.
C37_CountsEventsAtOrBefore ==
    /\ acc_sorted_insert # <<>>
          => CountsAtOrBefore(acc_data_cumulative, acc_data, acc_sorted_insert)
    /\ gyro_sorted_insert # <<>>
          => CountsAtOrBefore(gyro_data_cumulative, gyro_data,
                              gyro_sorted_insert)

\* C38: binning and stage classification never fail: aggregate_data returns
\* counts for every cumulative sequence and every bins >= 1, also when the
\* last cumulative value is 0 or below bins, and aggregate_to_stages returns
\* when the gyroscope counts are fewer than the accelerometer counts.
C38_BinningIsTotal ==
    batchError \notin {"ValueError", "IndexError"}

----------------------------------------------------------------------------
\* Burst detection alone: cumulative_sum on files whose rows differ in value
\* and are written one second apart, so that an event names its row.

AccBurstValues == {4, -6, 11}
GyroBurstValues == {40, -60, 101}

\* The files of n rows with values of the given set, row i written at second
\* i - 1.
BurstSessions(n, values) ==
    {[i \in 1..n |-> Row((i - 1) * TicksPerSecond, f[i])] :
        f \in [1..n -> values]}

BurstInit ==
    /\ NoSession
    /\ NoStorage
    /\ \E n \in 1..MaxRows :
         /\ acc_data \in BurstSessions(n, AccBurstValues)
         /\ gyro_data \in BurstSessions(n, GyroBurstValues)
    /\ bins = 1
    /\ batchPc = "cumulative_sum"
    /\ acc_data_cumulative = <<>>
    /\ gyro_data_cumulative = <<>>
    /\ acc_sorted_insert = <<>>
    /\ gyro_sorted_insert = <<>>
    /\ acc_aggregate = <<>>
    /\ gyro_aggregate = <<>>
    /\ stages = <<>>
    /\ batchError = "none"

BurstNext == main_cumulative_sum

BurstSpec == BurstInit /\ [][BurstNext]_vars

\* The sum of |value| over the rows j..k.
RECURSIVE AbsSum(_, _, _)
AbsSum(rows, j, k) ==
    IF j > k THEN 0 ELSE Abs(rows[k].value) + AbsSum(rows, j, k - 1)

\* The rows whose second is among the events, and the last of them before
\* row k, 0 if there is none.
EmittingRows(rows, events) ==
    {i \in 1..Len(rows) :
        \E e \in 1..Len(events) :
            events[e] * TicksPerSecond = rows[i].timestamp}
PreviousEmission(emitting, k) ==
    IF \E e \in emitting : e < k
    THEN CHOOSE e \in emitting :
             e < k /\ \A d \in emitting : d < k => d <= e
    ELSE 0

\* Row k emits exactly when the sum of the absolute values of the rows after
\* the previous emission, up to and including row k, is above the threshold;
\* every event is the second of a row, and no row emits twice.
EmitsExactlyAbove(rows, events, threshold) ==
    LET emitting == EmittingRows(rows, events)
    IN /\ \A k \in 1..Len(rows) :
             k \in emitting <=>
                 AbsSum(rows, PreviousEmission(emitting, k) + 1, k) > threshold
       /\ Len(events) = Cardinality(emitting)

\* C36: burst detection emits an event at a sample exactly when the sum of
\* absolute values since the previous emission, that sample included, is
\* strictly above the threshold, 10 for the accelerometer and 100 for the
\* gyroscope; the sum restarts from zero after an emission, a sample emits at
\* most once, and a sum equal to the threshold emits nothing.
C36_EmitsExactlyAboveThreshold ==
    batchPc # "cumulative_sum" =>
        /\ EmitsExactlyAbove(acc_data, acc_data_cumulative, 10)
        /\ EmitsExactlyAbove(gyro_data, gyro_data_cumulative, 100)

\* The sums 4, 10, 14 and then 11: the second row reaches the threshold and
\* emits nothing, the third and the fourth emit.
C36_Witness ==
    /\ batchPc # "cumulative_sum"
    /\ [i \in 1..Len(acc_data) |-> acc_data[i].value] = <<4, -6, 4, 11>>
    /\ acc_data_cumulative = <<2, 3>>
    /\ [i \in 1..Len(gyro_data) |-> gyro_data[i].value] = <<40, -60, 101, 40>>
    /\ gyro_data_cumulative = <<2>>

----------------------------------------------------------------------------
\* The files of a session: the directories CLI.__init__ creates, the files
\* stream_data opens for writing, and the files process_session.main reads.
\* A path is the sequence of its components.

MaxSessionId == 3

\* The data directories a caller may pass to CLI.
DataDirs == {"data", "records"}

\* f"{session_id}_acc_data.csv" and the like.
FileName(session_id, name) == [session_id |-> session_id, name |-> name]

Parent(path) == SubSeq(path, 1, Len(path) - 1)

\* os.makedirs(data_dir), os.makedirs(os.path.join(data_dir, 'sessions')).
makedirs(data_dir) == {<<data_dir>>, <<data_dir, "sessions">>}

\* The filename stream_data gives to the DataWriter of a channel.
writer_filename(c, session_id) ==
    IF c = "acc"
    THEN <<"data", "session", FileName(session_id, "acc_data.csv")>>
    ELSE <<"data", "sessions", FileName(session_id, "gyro_data.csv")>>

\* The path main gives to pd.read_csv for a channel.
read_csv_path(c, session_number) ==
    IF c = "acc"
    THEN <<"data", "sessions", FileName(session_number, "acc_data.csv")>>
    ELSE <<"data", "sessions", FileName(session_number, "gyro_data.csv")>>

\* The directories that may exist under the working directory before the
\* program runs.
ExistingDirs ==
    {{}, {<<"data">>}, {<<"data">>, <<"data", "session">>},
     {<<"data">>, <<"data", "sessions">>},
     {<<"data">>, <<"data", "session">>, <<"data", "sessions">>}}

storageRest == <<raw, connected, samples, pipelineVars, setupVars, batchVars>>

\* Before CLI is constructed: some directories may exist, and a file of the
\* session may have been put into data/sessions by hand.
StorageInit ==
    /\ NoSession
    /\ BatchUnstarted
    /\ \E s \in 1..MaxSessionId, d \in ExistingDirs :
         \E f \in SUBSET {read_csv_path("acc", s)} :
             /\ f # {} => <<"data", "sessions">> \in d
             /\ fs = [NoFiles EXCEPT !.dirs = d, !.files = f,
                                     !.session_id = s, !.pc = "cli"]

\* CLI.__init__(data_dir).
CLI_init ==
    /\ fs.pc = "cli"
    /\ \E data_dir \in DataDirs :
         fs' = [fs EXCEPT !.dirs = @ \cup makedirs(data_dir),
                          !.created = makedirs(data_dir),
                          !.pc = "acc_writer"]
    /\ UNCHANGED storageRest

\* DataWriter.__init__ as stream_data calls it for a channel: self.filename
\* = filename, then open(filename, "w"), which creates the file and raises
\* FileNotFoundError when the directory does not exist; stream_data does
\* not catch it.
DataWriter_init(c) ==
    /\ fs.pc = (IF c = "acc" THEN "acc_writer" ELSE "gyro_writer")
    /\ LET filename == writer_filename(c, fs.session_id)
       IN IF Parent(filename) \in fs.dirs
          THEN fs' = [fs EXCEPT !.filename[c] = filename,
                                !.files = @ \cup {filename},
                                !.pc = IF c = "acc" THEN "gyro_writer"
                                       ELSE "read_acc"]
          ELSE fs' = [fs EXCEPT !.filename[c] = filename,
                                !.error = "FileNotFoundError",
                                !.pc = "read_acc"]
    /\ UNCHANGED storageRest

\* pd.read_csv of a channel's file in process_session.main, run for the same
\* session: FileNotFoundError when the file does not exist.
read_csv(c) ==
    /\ fs.pc = (IF c = "acc" THEN "read_acc" ELSE "read_gyro")
    /\ LET path == read_csv_path(c, fs.session_id)
       IN IF path \in fs.files
          THEN fs' = [fs EXCEPT !.read_csv[c] = path,
                                !.pc = IF c = "acc" THEN "read_gyro"
                                       ELSE "done"]
          ELSE fs' = [fs EXCEPT !.read_csv[c] = path,
                                !.error = "FileNotFoundError",
                                !.pc = "failed"]
    /\ UNCHANGED storageRest

StorageNext ==
    \/ CLI_init
    \/ DataWriter_init("acc")
    \/ DataWriter_init("gyro")
    \/ read_csv("acc")
    \/ read_csv("gyro")

StorageSpec == StorageInit /\ [][StorageNext]_vars

\* C39: the file the streaming stage writes for a channel of a session is
\* the file the offline aggregator opens for that channel and session, and
\* it lies in the sessions directory that the setup step created.
C39_StagesShareFiles ==
    \A c \in Channels :
        (fs.filename[c] # NoPath /\ fs.read_csv[c] # NoPath)
            => /\ fs.filename[c] = fs.read_csv[c]
               /\ Parent(fs.filename[c]) \in fs.created
               /\ Parent(fs.filename[c])[2] = "sessions"

====
